---- MODULE Spec2Model ----
(***************************************************************************)
(* Model of the streakling backend: the store (users, name-cards,          *)
(* portfolios, challenges, submissions, subscriptions), the request        *)
(* handlers that act on it, and the external identity and billing          *)
(* providers as far as the handlers read them.                             *)
(*                                                                         *)
(* One action is one request handler run to completion, except where a     *)
(* handler is split at its store calls to expose interleavings of          *)
(* concurrent requests (login, submit).  Each subsystem has its own        *)
(* specification over the shared variables.                                *)
(***************************************************************************)
EXTENDS Integers, Sequences, FiniteSets, TLC

VARIABLES
    users,          \* User table: local id -> row
    res,            \* DigitalNameCard / Portfolio / Challenge tables: id -> row
    now,            \* the server clock read by new Date()
    resp,           \* the last request handled and its response
    subs,           \* ChallengeSubmission table, in insertion order
    reqs,           \* where each in-flight submit or withdraw request stands
    issued,         \* history: challenge and submissionOrder of every submission created
    profiled,       \* history: the users whose username the profile path has set
    loggedIn,       \* history: the external ids a login has succeeded for
    stripe,         \* the billing provider: its checkout sessions and subscriptions
    subscriptions,  \* Subscription table, in insertion order
    finalized,      \* history: what the last completed finalize of a session left
    view,           \* the body of the last response that serialized a row
    cookies,        \* history: the session tokens the server has signed, and whether a
                    \* logout has been requested with them
    customers,      \* the customers of the billing provider, in order of creation
    config          \* the environment the process was started with

resVars == <<res, now>>
subVars == <<subs, reqs, issued>>
\* what the resource handlers, and what the submission handlers, never touch
\* and what the login and profile handlers never touch
userHist == <<profiled, loggedIn, config>>
billVars == <<stripe, subscriptions, finalized, customers>>
offRes == <<subVars, userHist, billVars, view, cookies>>
offSub == <<users, now, userHist, billVars, view, cookies>>
offUser == <<res, now, subs, issued, billVars, view, cookies, config>>
offBill == <<res, now, subs, issued, userHist, view, cookies, customers>>
offCust == <<res, now, subs, issued, userHist, stripe, subscriptions, finalized, cookies>>
offView == <<now, subVars, userHist, billVars, cookies>>
offSession == <<res, now, subVars, userHist, billVars>>
offTx == <<users, now, subs, issued, userHist, billVars, cookies>>
vars == <<users, res, now, resp, subs, reqs, issued, profiled, loggedIn,
          stripe, subscriptions, finalized, view, cookies, customers, config>>

-----------------------------------------------------------------------------
(* Values                                                                   *)

\* JS undefined (a key missing from a body) and null, for string-valued fields
ABSENT == "<absent>"
NULL == "<null>"

\* publishedAt: null
NoDate == 0

\* the largest value of the clock
MaxClock == 2

UserIds == {"u1", "u2"}
\* a request without a valid session cookie has no req.user
Anon == "anon"
Callers == UserIds \cup {Anon}

\* row ids, in the order the store hands them out
IdOrder == <<"r1", "r2">>
ResIds == {IdOrder[i] : i \in 1..Len(IdOrder)}
Kinds == {"card", "portfolio", "challenge"}
PublishStatuses == {"DRAFT", "PRIVATE", "PUBLISHED"}

\* child collections of each resource type
ChildNames(kind) ==
    CASE kind = "card" -> {"socials"}
      [] kind = "portfolio" -> {"subImages", "projects"}
      [] kind = "challenge" -> {"prizes", "images"}
      [] OTHER -> {}

NoRow == [kind |-> "none"]

NoUser == [clerkId |-> "none"]

\* no row serialized yet
NoView == [of |-> "none"]

\* env.COOKIE_DOMAIN: a hostname as its labels, or undefined
NoDomain == <<>>
NoConfig == [COOKIE_DOMAIN |-> NoDomain]

-----------------------------------------------------------------------------
(* Strings as sequences of characters, for slugs and titles                 *)

Lower(c) == IF c = "A" THEN "a" ELSE IF c = "B" THEN "b" ELSE c
DigitChars == <<"0", "1", "2", "3", "4", "5", "6", "7", "8", "9">>
IsAlnum(c) ==
    \/ c \in {"a", "b", "c", "e", "f", "g", "h", "i", "l", "n", "o", "p", "r", "t"}
    \/ \E i \in 1..Len(DigitChars) : c = DigitChars[i]
IsSpace(c) == c = " "

RECURSIVE TrimLeft(_)
TrimLeft(s) == IF s # <<>> /\ IsSpace(Head(s)) THEN TrimLeft(Tail(s)) ELSE s

RECURSIVE TrimRight(_)
TrimRight(s) ==
    IF s # <<>> /\ IsSpace(s[Len(s)]) THEN TrimRight(SubSeq(s, 1, Len(s) - 1)) ELSE s

Trim(s) == TrimRight(TrimLeft(s))

\* .replace(/[^a-z0-9]+/g, '-'): every run of other characters becomes one hyphen
RECURSIVE Hyphenate(_, _)
Hyphenate(s, inRun) ==
    IF s = <<>> THEN <<>>
    ELSE IF IsAlnum(Head(s)) THEN <<Head(s)>> \o Hyphenate(Tail(s), FALSE)
    ELSE IF inRun THEN Hyphenate(Tail(s), TRUE)
    ELSE <<"-">> \o Hyphenate(Tail(s), TRUE)

\* .replace(/(^-|-$)+/g, '')
StripHyphens(s) ==
    LET a == IF s # <<>> /\ Head(s) = "-" THEN Tail(s) ELSE s
    IN  IF a # <<>> /\ a[Len(a)] = "-" THEN SubSeq(a, 1, Len(a) - 1) ELSE a

slugify(input) ==
    StripHyphens(Hyphenate(Trim([i \in 1..Len(input) |-> Lower(input[i])]), FALSE))

\* `${suffix}` for the suffixes the probe loop reaches
Digits(n) == <<DigitChars[n + 1]>>

-----------------------------------------------------------------------------
(* The store                                                                *)

Live(id) == res[id].kind # "none"
RowsOf(kind) == {id \in ResIds : res[id].kind = kind}
SlugTaken(kind, slug) == \E id \in RowsOf(kind) : res[id].slug = slug

\* the lookup without its userId condition
FindOwned_ByIdOnly(kind, id, uid) ==
    IF id \in ResIds /\ res[id].kind = kind THEN res[id] ELSE NoRow

\* prisma.<table>.findFirst({ where: { id, userId } })
FindOwned(kind, id, uid) ==
    IF id \in ResIds /\ res[id].kind = kind /\ res[id].userId = uid THEN res[id] ELSE NoRow

\* the suffix loop of ensureUniqueSlug / ensureUniqueChallengeSlug
ProbeLimit == Cardinality(ResIds) + 1
ensureUniqueSlug(kind, base, fallback) ==
    LET first == IF base # <<>> THEN base ELSE fallback
        cand(n) == base \o <<"-">> \o Digits(n)
    IN  IF ~SlugTaken(kind, first) THEN first
        ELSE cand(CHOOSE n \in 1..ProbeLimit :
                    /\ ~SlugTaken(kind, cand(n))
                    /\ \A m \in 1..(n - 1) : SlugTaken(kind, cand(m)))

ensureUniqueChallengeSlug(base) ==
    ensureUniqueSlug("challenge", base, <<"c", "h", "a", "l", "l", "e", "n", "g", "e">>)
ensureUniquePortfolioSlug(base) ==
    ensureUniqueSlug("portfolio", base, <<"p", "o", "r", "t", "f", "o", "l", "i", "o">>)

\* The last request and its response: the handler, the row id and the publishStatus
\* of the request, the HTTP status, and whether the request named a row of the
\* handler's table that another user owns
Foreign(kind, caller, id) ==
    caller # Anon /\ id \in ResIds /\ res[id].kind = kind /\ res[id].userId # caller
Respond(op, kind, caller, id, ps, code) ==
    resp' = [op |-> op, id |-> id, publishStatus |-> ps, code |-> code,
             foreign |-> Foreign(kind, caller, id), step |-> "-"]

Tick ==
    /\ now < MaxClock
    /\ now' = now + 1
    /\ UNCHANGED <<users, res, resp, offRes>>

-----------------------------------------------------------------------------
(* Owned resources: name-cards                                              *)

NewRow(kind, uid, slug, description, publishStatus, publishedAt, status, kids) ==
    [kind |-> kind, userId |-> uid, slug |-> slug, description |-> description,
     publishStatus |-> publishStatus, publishedAt |-> publishedAt,
     status |-> status, nextSubmissionOrder |-> IF kind = "challenge" THEN 1 ELSE 0,
     kids |-> kids]

FreeId(ids) ==
    IdOrder[CHOOSE i \in 1..Len(IdOrder) :
                /\ IdOrder[i] \in ids /\ ~Live(IdOrder[i])
                /\ \A j \in 1..(i - 1) : IdOrder[j] \notin ids \/ Live(IdOrder[j])]
HasFreeId(ids) == \E id \in ids : ~Live(id)

\* prisma.digitalNameCard.create: publishedAt is stamped iff the card is created PUBLISHED
\* data: { userId: req.user.uid, ...cardData, ... }: a userId among the keys of the
\* input would be written over the session's
CardCreateData(uid, input) ==
    NewRow("card", IF "userId" \in DOMAIN input THEN input.userId ELSE uid, input.slug,
           IF input.description = ABSENT THEN NULL ELSE input.description,
           input.publishStatus,
           IF input.publishStatus = "PUBLISHED" THEN now ELSE NoDate,
           "-", [c \in {"socials"} |-> input.socials])

createCard(ids, caller, input) ==
    /\ HasFreeId(ids)
    /\ IF caller = Anon
       THEN Respond("create", "card", caller, "-", ABSENT, 401) /\ UNCHANGED res
       ELSE IF SlugTaken("card", input.slug)
       THEN Respond("create", "card", caller, "-", ABSENT, 409) /\ UNCHANGED res
       ELSE /\ res' = [res EXCEPT ![FreeId(ids)] = CardCreateData(caller, input)]
            /\ Respond("create", "card", caller, FreeId(ids), ABSENT, 200)
    /\ UNCHANGED <<users, now, offRes>>

\* step 4 of updateCard: "manage publishedAt transitions"
CardNextPublishedAt(card, patch) ==
    IF patch.publishStatus = "PUBLISHED" /\ card.publishedAt = NoDate THEN now
    ELSE IF patch.publishStatus = "DRAFT" THEN NoDate
    ELSE card.publishedAt

\* updateCard with the given socials added to the stored ones
CardPatched_Merge(card, input) ==
    [card EXCEPT
        !.kids = [c \in DOMAIN @ |->
                    IF c \in DOMAIN input.kids THEN @[c] \o input.kids[c] ELSE @[c]]]

\* steps 3 to 6 of updateCard: the base patch, then the socials replaced if given;
\* data: { ...patch, publishedAt } writes every key of the input
CardPatched(card, input) ==
    [card EXCEPT
        !.userId = IF "userId" \in DOMAIN input THEN input.userId ELSE @,
        !.slug = IF input.slug = <<>> THEN @ ELSE input.slug,
        !.description = IF input.description = ABSENT THEN @ ELSE input.description,
        !.publishStatus = IF input.publishStatus = ABSENT THEN @ ELSE input.publishStatus,
        !.publishedAt = CardNextPublishedAt(card, input),
        !.kids = [c \in DOMAIN @ |-> IF c \in DOMAIN input.kids THEN input.kids[c] ELSE @[c]]]

CardById(id) == IF id \in ResIds /\ res[id].kind = "card" THEN res[id] ELSE NoRow

getMyCardById(caller, id) ==
    /\ IF caller = Anon THEN Respond("get", "card", caller, id, ABSENT, 401)
       ELSE IF CardById(id).kind = "none" \/ CardById(id).userId # caller
       THEN Respond("get", "card", caller, id, ABSENT, 404)
       ELSE Respond("get", "card", caller, id, ABSENT, 200)
    /\ UNCHANGED <<users, res, now, offRes>>

updateCard(caller, id, input) ==
    /\ IF caller = Anon
       THEN Respond("update", "card", caller, id, input.publishStatus, 401) /\ UNCHANGED res
       ELSE IF CardById(id).kind = "none" \/ CardById(id).userId # caller
       THEN Respond("update", "card", caller, id, input.publishStatus, 404) /\ UNCHANGED res
       ELSE IF /\ input.slug # <<>>
               /\ input.slug # CardById(id).slug
               /\ SlugTaken("card", input.slug)
       THEN Respond("update", "card", caller, id, input.publishStatus, 409) /\ UNCHANGED res
       ELSE /\ res' = [res EXCEPT ![id] = CardPatched(CardById(id), input)]
            /\ Respond("update", "card", caller, id, input.publishStatus, 200)
    /\ UNCHANGED <<users, now, offRes>>

deleteCard(caller, id) ==
    /\ IF caller = Anon
       THEN Respond("delete", "card", caller, id, ABSENT, 401) /\ UNCHANGED res
       ELSE IF CardById(id).kind = "none" \/ CardById(id).userId # caller
       THEN Respond("delete", "card", caller, id, ABSENT, 404) /\ UNCHANGED res
       ELSE /\ res' = [res EXCEPT ![id] = NoRow]
            /\ Respond("delete", "card", caller, id, ABSENT, 200)
    /\ UNCHANGED <<users, now, offRes>>

-----------------------------------------------------------------------------
(* Owned resources: challenges                                              *)

\* images.slice(0, 6)
Slice6(list) == SubSeq(list, 1, IF Len(list) < 6 THEN Len(list) ELSE 6)

\* a child collection of a create payload: absent creates nothing
KidOr(kids, c) == IF c \in DOMAIN kids THEN kids[c] ELSE <<>>

ChallengeCreateData(uid, payload) ==
    NewRow("challenge", uid,
           ensureUniqueChallengeSlug(
               IF payload.slug # <<>> THEN slugify(payload.slug) ELSE slugify(payload.title)),
           IF payload.description \in {ABSENT, NULL} THEN NULL ELSE payload.description,
           IF payload.publishStatus = ABSENT THEN "DRAFT" ELSE payload.publishStatus,
           IF payload.publishStatus = "PUBLISHED" THEN now ELSE NoDate,
           IF payload.status = ABSENT THEN "OPEN" ELSE payload.status,
           [c \in {"prizes", "images"} |->
               IF c = "images" THEN Slice6(KidOr(payload.kids, c)) ELSE KidOr(payload.kids, c)])

createChallenge(ids, caller, payload) ==
    /\ HasFreeId(ids)
    /\ IF caller = Anon
       THEN Respond("create", "challenge", caller, "-", ABSENT, 401) /\ UNCHANGED res
       ELSE /\ res' = [res EXCEPT ![FreeId(ids)] = ChallengeCreateData(caller, payload)]
            /\ Respond("create", "challenge", caller, FreeId(ids), ABSENT, 200)
    /\ UNCHANGED <<users, now, offRes>>

\* publishedAtUpdate stamping on every PUBLISHED, whatever the row holds
PublishedAtUpdate_Restamp(existing, body) ==
    IF body.publishStatus # ABSENT
    THEN IF body.publishStatus = "PUBLISHED" THEN <<now>> ELSE <<NoDate>>
    ELSE <<>>

\* updateChallenge / updatePortfolio: publishedAtUpdate, <<>> for "leave it alone"
PublishedAtUpdate(existing, body) ==
    IF body.publishStatus # ABSENT
    THEN IF body.publishStatus = "PUBLISHED" /\ existing.publishedAt = NoDate THEN <<now>>
         ELSE IF body.publishStatus # "PUBLISHED" THEN <<NoDate>>
         ELSE <<>>
    ELSE <<>>

\* prisma.challenge.update({ where: { id }, data })
ChallengePatched(existing, body) ==
    [existing EXCEPT
        !.slug = IF body.slug # <<>> /\ body.slug # existing.slug
                 THEN ensureUniqueChallengeSlug(slugify(body.slug)) ELSE @,
        !.description = IF body.description \in {ABSENT, NULL} THEN @ ELSE body.description,
        !.publishStatus = IF body.publishStatus = ABSENT THEN @ ELSE body.publishStatus,
        !.publishedAt = IF PublishedAtUpdate(existing, body) = <<>> THEN @
                        ELSE PublishedAtUpdate(existing, body)[1],
        !.status = IF body.status = ABSENT THEN @ ELSE body.status,
        !.kids = [c \in DOMAIN @ |->
                    IF c \in DOMAIN body.kids
                    THEN (IF c = "images" THEN Slice6(body.kids[c]) ELSE body.kids[c])
                    ELSE @[c]]]

getMyChallengeById(caller, id) ==
    /\ IF caller = Anon THEN Respond("get", "challenge", caller, id, ABSENT, 401)
       ELSE IF FindOwned("challenge", id, caller).kind = "none"
       THEN Respond("get", "challenge", caller, id, ABSENT, 404)
       ELSE Respond("get", "challenge", caller, id, ABSENT, 200)
    /\ UNCHANGED <<users, res, now, offRes>>

updateChallenge(caller, id, body) ==
    /\ IF caller = Anon
       THEN Respond("update", "challenge", caller, id, body.publishStatus, 401) /\ UNCHANGED res
       ELSE IF FindOwned("challenge", id, caller).kind = "none"
       THEN Respond("update", "challenge", caller, id, body.publishStatus, 404) /\ UNCHANGED res
       ELSE /\ res' = [res EXCEPT ![id] = ChallengePatched(res[id], body)]
            /\ Respond("update", "challenge", caller, id, body.publishStatus, 200)
    /\ UNCHANGED <<users, now, offRes>>

deleteChallenge(caller, id) ==
    /\ IF caller = Anon
       THEN Respond("delete", "challenge", caller, id, ABSENT, 401) /\ UNCHANGED res
       ELSE IF FindOwned("challenge", id, caller).kind = "none"
       THEN Respond("delete", "challenge", caller, id, ABSENT, 404) /\ UNCHANGED res
       ELSE /\ res' = [res EXCEPT ![id] = NoRow]
            /\ Respond("delete", "challenge", caller, id, ABSENT, 200)
    /\ UNCHANGED <<users, now, offRes>>

-----------------------------------------------------------------------------
(* Owned resources: portfolios                                              *)

PortfolioCreateData(uid, data) ==
    NewRow("portfolio", uid,
           ensureUniquePortfolioSlug(
               IF Trim(data.slug) # <<>> THEN Trim(data.slug) ELSE slugify(data.title)),
           IF data.description \in {ABSENT, NULL} THEN NULL ELSE data.description,
           IF data.publishStatus = ABSENT THEN "DRAFT" ELSE data.publishStatus,
           IF data.publishStatus = "PUBLISHED" THEN now ELSE NoDate,
           "-", [c \in {"subImages", "projects"} |-> KidOr(data.kids, c)])

createPortfolio(ids, caller, data) ==
    /\ HasFreeId(ids)
    /\ IF caller = Anon
       THEN Respond("create", "portfolio", caller, "-", ABSENT, 401) /\ UNCHANGED res
       ELSE /\ res' = [res EXCEPT ![FreeId(ids)] = PortfolioCreateData(caller, data)]
            /\ Respond("create", "portfolio", caller, FreeId(ids), ABSENT, 200)
    /\ UNCHANGED <<users, now, offRes>>

\* prisma.portfolio.update({ where: { id }, data })
PortfolioPatched(existing, body) ==
    [existing EXCEPT
        !.slug = IF body.slug # <<>> /\ body.slug # existing.slug
                 THEN ensureUniquePortfolioSlug(body.slug) ELSE @,
        !.description = IF body.description \in {ABSENT, NULL} THEN @ ELSE body.description,
        !.publishStatus = IF body.publishStatus = ABSENT THEN @ ELSE body.publishStatus,
        !.publishedAt = IF PublishedAtUpdate(existing, body) = <<>> THEN @
                        ELSE PublishedAtUpdate(existing, body)[1],
        !.kids = [c \in DOMAIN @ |-> IF c \in DOMAIN body.kids THEN body.kids[c] ELSE @[c]]]

getMyPortfolioById(caller, id) ==
    /\ IF caller = Anon THEN Respond("get", "portfolio", caller, id, ABSENT, 401)
       ELSE IF FindOwned("portfolio", id, caller).kind = "none"
       THEN Respond("get", "portfolio", caller, id, ABSENT, 404)
       ELSE Respond("get", "portfolio", caller, id, ABSENT, 200)
    /\ UNCHANGED <<users, res, now, offRes>>

updatePortfolio(caller, id, body) ==
    /\ IF caller = Anon
       THEN Respond("update", "portfolio", caller, id, body.publishStatus, 401) /\ UNCHANGED res
       ELSE IF FindOwned("portfolio", id, caller).kind = "none"
       THEN Respond("update", "portfolio", caller, id, body.publishStatus, 404) /\ UNCHANGED res
       ELSE /\ res' = [res EXCEPT ![id] = PortfolioPatched(res[id], body)]
            /\ Respond("update", "portfolio", caller, id, body.publishStatus, 200)
    /\ UNCHANGED <<users, now, offRes>>

deletePortfolio(caller, id) ==
    /\ IF caller = Anon
       THEN Respond("delete", "portfolio", caller, id, ABSENT, 401) /\ UNCHANGED res
       ELSE IF FindOwned("portfolio", id, caller).kind = "none"
       THEN Respond("delete", "portfolio", caller, id, ABSENT, 404) /\ UNCHANGED res
       ELSE /\ res' = [res EXCEPT ![id] = NoRow]
            /\ Respond("delete", "portfolio", caller, id, ABSENT, 200)
    /\ UNCHANGED <<users, now, offRes>>

-----------------------------------------------------------------------------
(* Requests in flight                                                       *)

Procs == {"p1", "p2"}
Idle == [at |-> "idle"]

\* checkout sessions of the billing provider
CsIds == {"cs1", "cs2"}
NoSub == [id |-> "none"]
NoSession == [subscription |-> NoSub]
NoSessions == [cs \in CsIds |-> NoSession]
NoneFinalized == [cs \in CsIds |-> [calls |-> 0]]

-----------------------------------------------------------------------------
(* Users                                                                    *)

ClerkIds == {"c1", "c2"}

\* the row prisma.user.create writes, columns not given taking the schema defaults
UserRow(clerkId, username, email, displayName, country, phone, religion) ==
    [clerkId |-> clerkId, username |-> username, email |-> email,
     displayName |-> displayName, country |-> country, phone |-> phone,
     religion |-> religion, role |-> "USER", plan |-> NULL,
     subscriptionStatus |-> NULL, currentPeriodEnd |-> NoDate, stripeCustomerId |-> NULL]

\* two users who have logged in once, with nothing but their provider identity
SeedUsers ==
    [u \in UserIds |->
        IF u = "u1" THEN UserRow("c1", NULL, "e1", "User", NULL, NULL, NULL)
        ELSE UserRow("c2", NULL, "e2", "User", NULL, NULL, NULL)]

NoResp ==
    [op |-> "none", id |-> "-", publishStatus |-> ABSENT, code |-> 0, foreign |-> FALSE,
     step |-> "-"]

\* JS falsiness of an optional string
Falsy(v) == v \in {ABSENT, NULL, ""}

\* a column given `x ?? undefined` at create: undefined leaves the column null
Stored(v) == IF v = ABSENT THEN NULL ELSE v

UserOrder == <<"u1", "u2">>
FreeUserId ==
    UserOrder[CHOOSE i \in 1..Len(UserOrder) :
                /\ users[UserOrder[i]] = NoUser
                /\ \A j \in 1..(i - 1) : users[UserOrder[j]] # NoUser]
HasFreeUserId == \E u \in UserIds : users[u] = NoUser

\* the table without its unique index on clerkId
UniqueClerkId_None(table) == TRUE

\* the unique index on User.clerkId that findUnique({ where: { clerkId } }) relies on
UniqueClerkId(table) ==
    \A a, b \in DOMAIN table :
        (table[a] # NoUser /\ table[b] # NoUser /\ table[a].clerkId = table[b].clerkId)
            => a = b

\* prisma.user.findUnique({ where: { clerkId } }): the row and its id
FindByClerkId(clerkId) ==
    IF \E u \in UserIds : users[u] # NoUser /\ users[u].clerkId = clerkId
    THEN LET u == CHOOSE u \in UserIds : users[u] # NoUser /\ users[u].clerkId = clerkId
         IN  [uid |-> u, row |-> users[u]]
    ELSE [uid |-> "-", row |-> NoUser]

\* upsertUserFromClerk, first login: the data of prisma.user.create
LoginCreateData(input) ==
    UserRow(input.clerkId, Stored(input.username), Stored(input.email),
            IF Falsy(input.displayName) THEN "User" ELSE input.displayName,
            Stored(input.country), Stored(input.phone), Stored(input.religion))

FillOnceFields == {"username", "country", "phone", "religion"}

\* "fill once" without its test of the stored value
FillOnce_Unguarded(existing, input, f) == ~Falsy(input[f])

\* if (!existing.f && input.f) data.f = input.f
FillOnce(existing, input, f) == Falsy(existing[f]) /\ ~Falsy(input[f])

\* the update data with every field written, null when not provided
LoginUpdateData_Nulls(existing, input) ==
    [f \in {"email", "displayName"} \cup FillOnceFields |->
        IF input[f] = ABSENT THEN NULL ELSE input[f]]

\* the update data with the role of a new user among the fields
LoginUpdateData_Role(existing, input) ==
    [f \in {"email", "displayName", "role"} |-> IF f = "role" THEN "USER" ELSE input[f]]

\* upsertUserFromClerk, subsequent logins: the data of prisma.user.update, as the
\* fields it writes
LoginUpdateData(existing, input) ==
    [f \in {g \in {"email", "displayName"} : input[g] # ABSENT}
           \cup {g \in FillOnceFields : FillOnce(existing, input, g)} |-> input[f]]

\* prisma.user.update({ where: { id }, data }) on the row as it is stored
ApplyData(row, data) ==
    [f \in DOMAIN row |-> IF f \in DOMAIN data THEN data[f] ELSE row[f]]

RespondUser(op, uid, code) ==
    resp' = [op |-> op, id |-> uid, publishStatus |-> ABSENT, code |-> code,
             foreign |-> FALSE, step |-> "-"]

\* POST /session/login up to the findUnique of upsertUserFromClerk: the token is
\* missing (400), rejected by verifyToken (401), or names an external id
LoginBegin(p, token) ==
    /\ reqs[p] = Idle
    /\ IF token = ABSENT
       THEN RespondUser("login", "-", 400) /\ UNCHANGED reqs
       ELSE IF token \notin ClerkIds
       THEN RespondUser("login", "-", 401) /\ UNCHANGED reqs
       ELSE /\ reqs' = [reqs EXCEPT ![p] =
                          [at |-> "upsert", clerkId |-> token,
                           uid |-> FindByClerkId(token).uid,
                           existing |-> FindByClerkId(token).row,
                           afterProfile |-> FindByClerkId(token).uid \in profiled]]
            /\ UNCHANGED resp
    /\ UNCHANGED <<users, userHist, offUser>>

\* POST /session/login from the create or update of upsertUserFromClerk to the
\* response; the claims of the request are not looked at before this step, and
\* are drawn here
LoginWrite(p, claims) ==
    /\ reqs[p].at = "upsert"
    /\ LET r == reqs[p]
           input == [claims EXCEPT !.clerkId = r.clerkId]
       IN
       IF r.existing = NoUser
       THEN /\ HasFreeUserId
            /\ IF UniqueClerkId([users EXCEPT ![FreeUserId] = LoginCreateData(input)])
               THEN /\ users' = [users EXCEPT ![FreeUserId] = LoginCreateData(input)]
                    /\ loggedIn' = loggedIn \cup {r.clerkId}
                    /\ RespondUser("login", FreeUserId, 200)
               ELSE /\ RespondUser("login", "-", 401)
                    /\ UNCHANGED <<users, loggedIn>>
       ELSE /\ users' = [users EXCEPT ![r.uid] =
                            ApplyData(@, LoginUpdateData(r.existing, input))]
            /\ loggedIn' = loggedIn \cup {r.clerkId}
            /\ RespondUser("login", r.uid, 200)
    /\ reqs' = [reqs EXCEPT ![p] = Idle]
    /\ UNCHANGED <<profiled, offUser>>

\* a body of PATCH /profile with none of the fields of updateMyProfileSchema given
NoProfileBody ==
    [username |-> ABSENT, country |-> ABSENT, phone |-> ABSENT, religion |-> ABSENT]

\* updateProfile up to the uniqueness check of the username
ProfileBegin(p, caller, input) ==
    /\ reqs[p] = Idle
    /\ caller # Anon => users[caller] # NoUser
    /\ IF caller = Anon
       THEN RespondUser("profile", "-", 401) /\ UNCHANGED reqs
       ELSE IF /\ ~Falsy(input.username)
               /\ \E u \in UserIds \ {caller} :
                      users[u] # NoUser /\ users[u].username = input.username
       THEN RespondUser("profile", caller, 409) /\ UNCHANGED reqs
       ELSE /\ reqs' = [reqs EXCEPT ![p] = [at |-> "profile", uid |-> caller, input |-> input]]
            /\ UNCHANGED resp
    /\ UNCHANGED <<users, userHist, offUser>>

\* updateProfile: prisma.user.update({ where: { id: req.user.uid }, data })
ProfileWrite(p) ==
    /\ reqs[p].at = "profile"
    /\ LET r == reqs[p]
           data == [f \in {g \in DOMAIN r.input : r.input[g] # ABSENT} |-> r.input[f]]
       IN  /\ users' = [users EXCEPT ![r.uid] = ApplyData(@, data)]
           /\ profiled' = IF "username" \in DOMAIN data THEN profiled \cup {r.uid} ELSE profiled
           /\ RespondUser("profile", r.uid, 200)
    /\ reqs' = [reqs EXCEPT ![p] = Idle]
    /\ UNCHANGED <<loggedIn, offUser>>

\* PATCH /profile: validateBody(updateMyProfileSchema), a strict schema that fails
\* on a key it does not know, then updateProfile
patchProfile(p, caller, body) ==
    IF DOMAIN body \subseteq DOMAIN NoProfileBody
    THEN ProfileBegin(p, caller, body)
    ELSE /\ reqs[p] = Idle
         /\ RespondUser("profile", "-", 400)
         /\ UNCHANGED <<users, reqs, userHist, offUser>>

-----------------------------------------------------------------------------
(* Challenge submissions                                                    *)

\* the largest value of nextSubmissionOrder at which a submit is still explored
MaxOrder == 3

\* the unique index of ChallengeSubmission on (challengeId, submitterId)
UniqueSubmitter(rows) ==
    \A i, j \in 1..Len(rows) :
        (rows[i].challengeId = rows[j].challengeId /\ rows[i].submitterId = rows[j].submitterId)
            => i = j

\* challengeSubmission.findFirst({ where: { challengeId, submitterId } })
SubmissionsOf(id, uid) ==
    {i \in 1..Len(subs) : subs[i].challengeId = id /\ subs[i].submitterId = uid}
HasSubmission(id, uid) == SubmissionsOf(id, uid) # {}
FirstSubmission(id, uid) ==
    subs[CHOOSE i \in SubmissionsOf(id, uid) : \A j \in SubmissionsOf(id, uid) : i <= j]

\* the test of the challenge without its tests of publishStatus and status
ChallengeOpen_AnyStatus(id) == id \in ResIds /\ res[id].kind = "challenge"

\* !c || c.publishStatus !== 'PUBLISHED' || c.status !== 'OPEN', negated
ChallengeOpen(id) ==
    /\ id \in ResIds /\ res[id].kind = "challenge"
    /\ res[id].publishStatus = "PUBLISHED" /\ res[id].status = "OPEN"

\* the socials of the caller's most recently published card
PublishedSocials(uid) ==
    LET cards == {c \in RowsOf("card") :
                    res[c].userId = uid /\ res[c].publishStatus = "PUBLISHED"}
    IN  IF cards = {} THEN <<>>
        ELSE res[CHOOSE c \in cards :
                    \A d \in cards : res[d].publishedAt <= res[c].publishedAt].kids.socials

\* messages of the errors the store throws
UniqueMsg == "Unique constraint failed on the fields"
MissingMsg == "Record to update not found"

\* the catch of createSubmission without its test of the message
SubmitErrorCode_NoTest(msg) == 500

\* the catch of createSubmission: msg.includes('Unique constraint') || msg.includes('unique')
SubmitErrorCode(msg) == IF msg = UniqueMsg THEN 409 ELSE 500

\* the order taken from the number of rows the challenge holds
SubmissionOrder_ByCount(updatedCounter) == Len(subs) + 1

\* const order = updatedCounter.nextSubmissionOrder - 1
SubmissionOrder(updatedCounter) == updatedCounter.nextSubmissionOrder - 1

RespondAt(op, caller, id, code, step) ==
    resp' = [op |-> op, id |-> id, publishStatus |-> ABSENT, code |-> code,
             foreign |-> Foreign("challenge", caller, id), step |-> step]

RemoveAt(seq, i) == SubSeq(seq, 1, i - 1) \o SubSeq(seq, i + 1, Len(seq))

\* createSubmission, up to the read of the challenge
SubmitBegin(p, caller, id) ==
    /\ reqs[p] = Idle
    /\ (id \in ResIds /\ res[id].kind = "challenge") => res[id].nextSubmissionOrder <= MaxOrder
    /\ IF caller = Anon
       THEN RespondAt("submit", caller, id, 401, "begin") /\ UNCHANGED reqs
       ELSE IF ~ChallengeOpen(id)
       THEN RespondAt("submit", caller, id, 404, "begin") /\ UNCHANGED reqs
       ELSE /\ reqs' = [reqs EXCEPT ![p] = [at |-> "find", uid |-> caller, id |-> id]]
            /\ UNCHANGED resp
    /\ UNCHANGED <<res, subs, issued, offSub>>

\* createSubmission: the read of the caller's existing submission
SubmitFind(p) ==
    /\ reqs[p].at = "find"
    /\ IF HasSubmission(reqs[p].id, reqs[p].uid)
       THEN /\ RespondAt("submit", reqs[p].uid, reqs[p].id, 409, "find")
            /\ reqs' = [reqs EXCEPT ![p] = Idle]
       ELSE /\ reqs' = [reqs EXCEPT ![p].at = "snapshot"]
            /\ UNCHANGED resp
    /\ UNCHANGED <<res, subs, issued, offSub>>

\* createSubmission: the reads of the caller's name and phone and of the socials of
\* the caller's published card
SubmitSnapshot(p) ==
    /\ reqs[p].at = "snapshot"
    /\ reqs' = [reqs EXCEPT ![p] =
                  [at |-> "tx", uid |-> reqs[p].uid, id |-> reqs[p].id,
                   name |-> users[reqs[p].uid].displayName,
                   phone |-> users[reqs[p].uid].phone,
                   socials |-> PublishedSocials(reqs[p].uid)]]
    /\ UNCHANGED <<res, resp, subs, issued, offSub>>

\* createSubmission: prisma.$transaction and the response
SubmitCommit(p) ==
    /\ reqs[p].at = "tx"
    /\ LET r == reqs[p]
           updatedCounter ==
               [nextSubmissionOrder |-> res[r.id].nextSubmissionOrder + 1]
           row == [sid |-> Len(issued) + 1, challengeId |-> r.id, submitterId |-> r.uid,
                   submissionOrder |-> SubmissionOrder(updatedCounter),
                   submitterName |-> r.name, submitterPhone |-> r.phone,
                   submitterSocials |-> r.socials, status |-> "PENDING"]
       IN  IF res[r.id].kind # "challenge"
           THEN /\ RespondAt("submit", r.uid, r.id, SubmitErrorCode(MissingMsg), "tx")
                /\ UNCHANGED <<res, subs, issued>>
           ELSE IF ~UniqueSubmitter(Append(subs, row))
           THEN /\ RespondAt("submit", r.uid, r.id, SubmitErrorCode(UniqueMsg), "tx")
                /\ UNCHANGED <<res, subs, issued>>
           ELSE /\ res' = [res EXCEPT ![r.id].nextSubmissionOrder =
                                          updatedCounter.nextSubmissionOrder]
                /\ subs' = Append(subs, row)
                /\ issued' = Append(issued, [challengeId |-> r.id, order |-> row.submissionOrder])
                /\ RespondAt("submit", r.uid, r.id, 200, "tx")
    /\ reqs' = [reqs EXCEPT ![p] = Idle]
    /\ UNCHANGED offSub

\* withdrawMySubmission, up to the read of the caller's submission
WithdrawBegin(p, caller, id) ==
    /\ reqs[p] = Idle
    /\ IF caller = Anon
       THEN RespondAt("withdraw", caller, id, 401, "begin") /\ UNCHANGED reqs
       ELSE IF ~HasSubmission(id, caller)
       THEN RespondAt("withdraw", caller, id, 404, "begin") /\ UNCHANGED reqs
       ELSE /\ reqs' = [reqs EXCEPT ![p] = [at |-> "delete", uid |-> caller, id |-> id,
                                            sid |-> FirstSubmission(id, caller).sid]]
            /\ UNCHANGED resp
    /\ UNCHANGED <<res, subs, issued, offSub>>

\* withdrawMySubmission: challengeSubmission.delete({ where: { id: existing.id } })
WithdrawDelete(p) ==
    /\ reqs[p].at = "delete"
    /\ IF \E i \in 1..Len(subs) : subs[i].sid = reqs[p].sid
       THEN /\ subs' = RemoveAt(subs, CHOOSE i \in 1..Len(subs) : subs[i].sid = reqs[p].sid)
            /\ RespondAt("withdraw", reqs[p].uid, reqs[p].id, 200, "delete")
       ELSE /\ RespondAt("withdraw", reqs[p].uid, reqs[p].id, 500, "delete")
            /\ UNCHANGED subs
    /\ reqs' = [reqs EXCEPT ![p] = Idle]
    /\ UNCHANGED <<res, issued, offSub>>

\* the rows of a submission id
RowsOfSid(sid) == {i \in 1..Len(subs) : subs[i].sid = sid}

\* updateSubmissionStatus: the challenge is looked up by the id of the path and the
\* caller, the submission is updated by its own id alone
updateSubmissionStatus(caller, challengeId, submissionId, status) ==
    /\ IF caller = Anon
       THEN RespondAt("setStatus", caller, challengeId, 401, "-") /\ UNCHANGED subs
       ELSE IF Falsy(status)
       THEN RespondAt("setStatus", caller, challengeId, 409, "-") /\ UNCHANGED subs
       ELSE IF ~(/\ challengeId \in ResIds /\ res[challengeId].kind = "challenge"
                 /\ res[challengeId].userId = caller)
       THEN RespondAt("setStatus", caller, challengeId, 404, "-") /\ UNCHANGED subs
       ELSE IF RowsOfSid(submissionId) = {}
       THEN RespondAt("setStatus", caller, challengeId, 500, "-") /\ UNCHANGED subs
       ELSE /\ subs' = [i \in 1..Len(subs) |->
                          IF subs[i].sid = submissionId
                          THEN [subs[i] EXCEPT !.status = status] ELSE subs[i]]
            /\ RespondAt("setStatus", caller, challengeId, 200, "-")
    /\ UNCHANGED <<res, reqs, issued, offSub>>

-----------------------------------------------------------------------------
(* Billing reconciliation                                                   *)

Plans == {"basic", "pro", "ultimate"}

\* the largest current_period_end, in seconds, and the number of completed calls
\* the history counts to
MaxPeriod == 2
MaxCalls == 2

\* env.STRIPE_PRICE_BASIC, env.STRIPE_PRICE_PRO, env.STRIPE_PRICE_ULTIMATE
EnvPrice(plan) ==
    IF plan = "basic" THEN "price_basic"
    ELSE IF plan = "pro" THEN "price_pro" ELSE "price_ultimate"

\* req.user.id: the session payload carries uid and cid, and no id
CallerId(caller) == ABSENT

\* a ?? b
Coalesce(a, b) == IF a \in {ABSENT, NULL} THEN b ELSE a

\* sub.metadata?.appUserId ?? session.metadata?.appUserId ?? null
MetadataUser(session) ==
    Coalesce(session.subscription.metadata.appUserId,
             Coalesce(session.metadata.appUserId, NULL))

\* prisma.user.findFirst({ where: { stripeCustomerId } }): owner?.id ?? null
OwnerOfCustomer(customer) ==
    IF \E u \in UserIds : users[u] # NoUser /\ users[u].stripeCustomerId = customer
    THEN CHOOSE u \in UserIds : users[u] # NoUser /\ users[u].stripeCustomerId = customer
    ELSE NULL

\* the appUserId of finalizeFromCheckout: metadata, then the customer, then the caller
AppUserId(session, callerId) ==
    LET byMeta == MetadataUser(session)
        byCustomer == IF Falsy(byMeta) THEN OwnerOfCustomer(session.subscription.customer)
                      ELSE byMeta
    IN  IF Falsy(byCustomer) THEN callerId ELSE byCustomer

\* the plan of finalizeFromCheckout: lookup_key, then metadata, then the env price ids
PlanOf(session) ==
    LET sub == session.subscription
        metaPlan == IF ~Falsy(sub.metadata.plan) THEN sub.metadata.plan
                    ELSE session.metadata.plan
    IN  IF sub.price.lookup_key = "basic_monthly" THEN "basic"
        ELSE IF sub.price.lookup_key = "pro_monthly" THEN "pro"
        ELSE IF sub.price.lookup_key = "ultimate_monthly" THEN "ultimate"
        ELSE IF metaPlan \in Plans THEN metaPlan
        ELSE IF \E pl \in Plans : sub.price.id = EnvPrice(pl)
        THEN CHOOSE pl \in Plans : sub.price.id = EnvPrice(pl)
        ELSE ABSENT

\* new Date(currentPeriodEndSec * 1000), in milliseconds
PeriodEnd(sub) == sub.current_period_end * 1000

RowsOfSub(stripeSubId) ==
    {i \in 1..Len(subscriptions) : subscriptions[i].stripeSubId = stripeSubId}

\* the upsert as a plain create
UpsertSubscription_Insert(table, sub, appUserId) ==
    Append(table, [stripeSubId |-> sub.id, userId |-> appUserId,
                   stripePriceId |-> sub.price.id, status |-> sub.status,
                   currentPeriodEnd |-> PeriodEnd(sub)])

\* prisma.subscription.upsert({ where: { stripeSubId: sub.id }, create, update })
UpsertSubscription(table, sub, appUserId) ==
    IF \E i \in 1..Len(table) : table[i].stripeSubId = sub.id
    THEN [i \in 1..Len(table) |->
            IF table[i].stripeSubId = sub.id
            THEN [table[i] EXCEPT !.stripePriceId = sub.price.id, !.status = sub.status,
                                  !.currentPeriodEnd = PeriodEnd(sub)]
            ELSE table[i]]
    ELSE Append(table, [stripeSubId |-> sub.id, userId |-> appUserId,
                        stripePriceId |-> sub.price.id, status |-> sub.status,
                        currentPeriodEnd |-> PeriodEnd(sub)])

\* the data of prisma.user.update in finalizeFromCheckout, applied to the row
BillingPatched(row, sub, plan) ==
    [row EXCEPT !.plan = IF plan = ABSENT THEN @ ELSE plan,
                !.subscriptionStatus = sub.status,
                !.currentPeriodEnd = PeriodEnd(sub)]

\* the billing fields of a user row
BillingOf(row) ==
    [plan |-> row.plan, subscriptionStatus |-> row.subscriptionStatus,
     currentPeriodEnd |-> row.currentPeriodEnd]

RespondBilling(id, code, step) ==
    resp' = [op |-> "finalize", id |-> id, publishStatus |-> ABSENT, code |-> code,
             foreign |-> FALSE, step |-> step]

\* finalizeFromCheckout up to stripe.checkout.sessions.retrieve
FinalizeRetrieve(p, caller, sessionId) ==
    /\ reqs[p] = Idle
    /\ IF caller = Anon
       THEN RespondBilling("-", 401, "retrieve") /\ UNCHANGED reqs
       ELSE IF Falsy(sessionId)
       THEN RespondBilling("-", 400, "retrieve") /\ UNCHANGED reqs
       ELSE IF sessionId \notin CsIds
       THEN RespondBilling(sessionId, 500, "retrieve") /\ UNCHANGED reqs
       ELSE IF stripe[sessionId].subscription = NoSub
       THEN RespondBilling(sessionId, 200, "retrieve") /\ UNCHANGED reqs
       ELSE /\ reqs' = [reqs EXCEPT ![p] =
                          [at |-> "resolve", callerId |-> CallerId(caller),
                           sessionId |-> sessionId, session |-> stripe[sessionId]]]
            /\ UNCHANGED resp
    /\ UNCHANGED <<users, billVars, offBill>>

\* finalizeFromCheckout: the owner, by metadata or by the customer lookup, and the plan
FinalizeResolve(p) ==
    /\ reqs[p].at = "resolve"
    /\ reqs' = [reqs EXCEPT ![p] =
                  [at |-> "upsert", sessionId |-> reqs[p].sessionId,
                   session |-> reqs[p].session,
                   appUserId |-> AppUserId(reqs[p].session, reqs[p].callerId),
                   plan |-> PlanOf(reqs[p].session)]]
    /\ UNCHANGED <<users, resp, billVars, offBill>>

\* finalizeFromCheckout: prisma.subscription.upsert; it throws when the row to create
\* has no user id or names no user
FinalizeUpsert(p) ==
    /\ reqs[p].at = "upsert"
    /\ LET r == reqs[p] IN
       IF r.appUserId \notin UserIds \/ users[r.appUserId] = NoUser
       THEN /\ RespondBilling(r.sessionId, 500, "upsert")
            /\ reqs' = [reqs EXCEPT ![p] = Idle]
            /\ UNCHANGED subscriptions
       ELSE /\ subscriptions' =
                  UpsertSubscription(subscriptions, r.session.subscription, r.appUserId)
            /\ reqs' = [reqs EXCEPT ![p].at = "user"]
            /\ UNCHANGED resp
    /\ UNCHANGED <<users, stripe, finalized, offBill>>

\* finalizeFromCheckout: prisma.user.update and the response
FinalizeUser(p) ==
    /\ reqs[p].at = "user"
    /\ LET r == reqs[p]
           sub == r.session.subscription
       IN  /\ users' = [users EXCEPT ![r.appUserId] = BillingPatched(@, sub, r.plan)]
           /\ finalized' = [finalized EXCEPT ![r.sessionId] =
                  [calls |-> IF @.calls < MaxCalls THEN @.calls + 1 ELSE @.calls,
                   session |-> r.session,
                   rows |-> {subscriptions[i] : i \in RowsOfSub(sub.id)},
                   userId |-> r.appUserId,
                   billing |-> BillingOf(users'[r.appUserId])]]
           /\ RespondBilling(r.sessionId, 200, "user")
    /\ reqs' = [reqs EXCEPT ![p] = Idle]
    /\ UNCHANGED <<stripe, subscriptions, offBill>>

\* the billing provider moves a subscription on to its next period, paid or not
StripeChange(sessionId, status) ==
    /\ stripe[sessionId].subscription # NoSub
    /\ stripe[sessionId].subscription.current_period_end < MaxPeriod
    /\ stripe' = [stripe EXCEPT ![sessionId].subscription =
                    [@ EXCEPT !.status = status, !.current_period_end = @ + 1]]
    /\ UNCHANGED <<users, resp, reqs, subscriptions, finalized, offBill>>

-----------------------------------------------------------------------------
(* Billing customers                                                        *)

\* the number of remote customers up to which checkouts are explored
MaxCustomers == 3

\* the ids the provider gives its customers
CustomerIds == <<"cusA", "cusB", "cusC", "cusD">>

\* the session payload read as the controller reads it: user.id and user.clerkId are
\* not fields of the payload, user.email is
LookupOf(caller) ==
    [userId |-> CallerId(caller), clerkId |-> ABSENT, email |-> users[caller].email]

\* the three findUnique of getOrCreateStripeCustomerId: by id, by clerkId, by email
LookupUser(lookup) ==
    LET by(f, v) == {u \in UserIds : users[u] # NoUser /\ ~Falsy(v) /\
                        (IF f = "id" THEN u = v ELSE users[u][f] = v)}
        found == IF by("id", lookup.userId) # {} THEN by("id", lookup.userId)
                 ELSE IF by("clerkId", lookup.clerkId) # {} THEN by("clerkId", lookup.clerkId)
                 ELSE by("email", lookup.email)
    IN  IF found = {} THEN "-" ELSE CHOOSE u \in found : TRUE

\* getOrCreateStripeCustomerId without its prisma.user.update
LinkCustomer_Skip(user, id) == user

\* prisma.user.update({ where: { id: user.id }, data: { stripeCustomerId: customer.id } })
LinkCustomer(user, id) == [user EXCEPT !.stripeCustomerId = id]

RespondCheckout(caller, uid, code, step, customer) ==
    /\ resp' = [op |-> "checkout", id |-> customer, publishStatus |-> ABSENT,
                code |-> code, foreign |-> FALSE, step |-> step]
    /\ view' = [of |-> "checkout", caller |-> caller, uid |-> uid]

\* createCheckoutSession up to the branch of getOrCreateStripeCustomerId on the
\* stored customer id; with one, the checkout session is created for it
CheckoutBegin(p, caller, plan) ==
    /\ reqs[p] = Idle
    /\ Len(customers) < MaxCustomers
    /\ IF caller = Anon
       THEN RespondCheckout(caller, "-", 401, "begin", "-") /\ UNCHANGED reqs
       ELSE IF plan \notin Plans
       THEN RespondCheckout(caller, "-", 400, "begin", "-") /\ UNCHANGED reqs
       ELSE IF LookupUser(LookupOf(caller)) = "-"
       THEN RespondCheckout(caller, "-", 500, "begin", "-") /\ UNCHANGED reqs
       ELSE LET uid == LookupUser(LookupOf(caller))
            IN  IF ~Falsy(users[uid].stripeCustomerId)
                THEN /\ RespondCheckout(caller, uid, 200, "stored",
                                        users[uid].stripeCustomerId)
                     /\ UNCHANGED reqs
                ELSE /\ reqs' = [reqs EXCEPT ![p] =
                                   [at |-> "cust:create", caller |-> caller, uid |-> uid]]
                     /\ UNCHANGED <<resp, view>>
    /\ UNCHANGED <<users, customers, offCust>>

\* stripe.customers.create
CustomerCreate(p) ==
    /\ reqs[p].at = "cust:create"
    /\ LET id == CustomerIds[Len(customers) + 1]
       IN  /\ customers' = Append(customers, [id |-> id, appUserId |-> reqs[p].uid])
           /\ reqs' = [reqs EXCEPT ![p] = [at |-> "cust:store", caller |-> reqs[p].caller,
                                           uid |-> reqs[p].uid, customer |-> id]]
    /\ UNCHANGED <<users, resp, view, offCust>>

\* the link is written, the id returned and the checkout session created for it
CustomerStore(p) ==
    /\ reqs[p].at = "cust:store"
    /\ users' = [users EXCEPT ![reqs[p].uid] = LinkCustomer(@, reqs[p].customer)]
    /\ RespondCheckout(reqs[p].caller, reqs[p].uid, 200, "created", reqs[p].customer)
    /\ reqs' = [reqs EXCEPT ![p] = Idle]
    /\ UNCHANGED <<customers, offCust>>

-----------------------------------------------------------------------------
(* Slugs under concurrent requests: a create or a slug-changing update      *)
(* split at its store calls, the probe of the slug and the write            *)

\* the tables without their unique index on slug
UniqueSlug_None(table) == TRUE

\* the unique index on slug that findUnique({ where: { slug } }) relies on, in the
\* DigitalNameCard, Challenge and Portfolio tables
UniqueSlug(table) ==
    \A a, b \in DOMAIN table :
        (table[a].kind # "none" /\ table[a].kind = table[b].kind
            /\ table[a].slug = table[b].slug) => a = b

\* the slug a create asks the probe for
CreateBase(kind, input) ==
    CASE kind = "card" -> input.slug
      [] kind = "challenge" ->
            IF input.slug # <<>> THEN slugify(input.slug) ELSE slugify(input.title)
      [] kind = "portfolio" ->
            IF Trim(input.slug) # <<>> THEN Trim(input.slug) ELSE slugify(input.title)

\* the slug an update asks the probe for
UpdateBase(kind, slug) == IF kind = "challenge" THEN slugify(slug) ELSE slug

\* the slug the probe settles on; createCard and updateCard probe once
ProbedSlug(kind, base) ==
    CASE kind = "card" -> base
      [] kind = "challenge" -> ensureUniqueChallengeSlug(base)
      [] kind = "portfolio" -> ensureUniquePortfolioSlug(base)

\* the row a create writes, with the slug its probe settled on
CreateData(kind, uid, input, slug) ==
    CASE kind = "card" -> [CardCreateData(uid, input) EXCEPT !.slug = slug]
      [] kind = "challenge" -> [ChallengeCreateData(uid, input) EXCEPT !.slug = slug]
      [] kind = "portfolio" -> [PortfolioCreateData(uid, input) EXCEPT !.slug = slug]

RespondSlug(op, kind, caller, id, code, step) ==
    resp' = [op |-> op, id |-> id, publishStatus |-> ABSENT, code |-> code,
             foreign |-> Foreign(kind, caller, id), step |-> step]

\* createCard / createChallenge / createPortfolio up to the end of the slug probe
CreateProbe(p, kind, caller, input) ==
    /\ reqs[p] = Idle
    /\ IF caller = Anon
       THEN RespondSlug("create", kind, caller, "-", 401, "probe") /\ UNCHANGED reqs
       ELSE IF kind = "card" /\ SlugTaken("card", input.slug)
       THEN RespondSlug("create", kind, caller, "-", 409, "probe") /\ UNCHANGED reqs
       ELSE /\ reqs' = [reqs EXCEPT ![p] =
                          [at |-> "create", kind |-> kind, uid |-> caller, input |-> input,
                           slug |-> ProbedSlug(kind, CreateBase(kind, input))]]
            /\ UNCHANGED resp
    /\ UNCHANGED <<res, subs, issued, offSub>>

\* the create of the row and the response: a violation of the unique index throws,
\* and the catch of the three handlers answers sendError
CreateWrite(p) ==
    /\ reqs[p].at = "create"
    /\ HasFreeId(ResIds)
    /\ LET r == reqs[p]
           id == FreeId(ResIds)
           table == [res EXCEPT ![id] = CreateData(r.kind, r.uid, r.input, r.slug)]
       IN  IF UniqueSlug(table)
           THEN /\ res' = table
                /\ RespondSlug("create", r.kind, r.uid, id, 200, "write")
           ELSE /\ RespondSlug("create", r.kind, r.uid, "-", 500, "collision")
                /\ UNCHANGED res
    /\ reqs' = [reqs EXCEPT ![p] = Idle]
    /\ UNCHANGED <<subs, issued, offSub>>

\* updateCard / updateChallenge / updatePortfolio with a body that holds a slug only,
\* up to the end of the slug probe
UpdateProbe(p, kind, caller, id, slug) ==
    /\ reqs[p] = Idle
    /\ IF caller = Anon
       THEN RespondSlug("update", kind, caller, id, 401, "probe") /\ UNCHANGED reqs
       ELSE IF FindOwned(kind, id, caller).kind = "none"
       THEN RespondSlug("update", kind, caller, id, 404, "probe") /\ UNCHANGED reqs
       ELSE IF kind = "card" /\ slug # res[id].slug /\ SlugTaken("card", slug)
       THEN RespondSlug("update", kind, caller, id, 409, "probe") /\ UNCHANGED reqs
       ELSE /\ reqs' = [reqs EXCEPT ![p] =
                          [at |-> "update", kind |-> kind, uid |-> caller, id |-> id,
                           slug |-> IF slug = res[id].slug THEN <<>>
                                    ELSE ProbedSlug(kind, UpdateBase(kind, slug))]]
            /\ UNCHANGED resp
    /\ UNCHANGED <<res, subs, issued, offSub>>

\* the update of the row and the response; updateCard writes the slug of the body,
\* the other two write slugUpdate when there is one
UpdateWrite(p) ==
    /\ reqs[p].at = "update"
    /\ LET r == reqs[p]
           table == [res EXCEPT ![r.id].slug = IF r.slug = <<>> THEN @ ELSE r.slug]
       IN  IF UniqueSlug(table)
           THEN /\ res' = table
                /\ RespondSlug("update", r.kind, r.uid, r.id, 200, "write")
           ELSE /\ RespondSlug("update", r.kind, r.uid, r.id, 500, "collision")
                /\ UNCHANGED res
    /\ reqs' = [reqs EXCEPT ![p] = Idle]
    /\ UNCHANGED <<subs, issued, offSub>>

-----------------------------------------------------------------------------
(* Owner view and public view                                               *)

\* the sensitive fields of a name-card and of a profile, and the flag of each
CardSensitive == {"phone", "religion", "company", "university", "country"}
ProfileSensitive == {"email", "country", "religion", "dateOfBirth", "phone"}
ShowFlag(f) ==
    CASE f = "phone" -> "showPhone"
      [] f = "religion" -> "showReligion"
      [] f = "company" -> "showCompany"
      [] f = "university" -> "showUniversity"
      [] f = "country" -> "showCountry"
      [] f = "email" -> "showEmail"
      [] f = "dateOfBirth" -> "showDateOfBirth"

\* a row with further columns
WithColumns(row, more) ==
    [f \in DOMAIN row \cup DOMAIN more |-> IF f \in DOMAIN more THEN more[f] ELSE row[f]]

\* toYMD: new Date(d).toISOString().slice(0, 10) of a date stored at an hour of a
\* calendar day in UTC
\* a date is <<year, month, day, hour>>, and <<>> when the column is null
NoDay == <<>>
toYMD(d) == IF d = NoDay THEN NoDay ELSE SubSeq(d, 1, 3)

\* null, for a field of the views
NullOf(f) == IF f = "dateOfBirth" THEN NoDay ELSE NULL

\* value ?? null, and toYMD(value) for the date of birth
Raw(row, f) == IF f = "dateOfBirth" THEN toYMD(row[f]) ELSE Coalesce(row[f], NULL)

\* the public branch without its flags
Shown_Always(isOwner, flag, value, null) == value

\* owners see everything; the public view respects the flag
Shown(isOwner, flag, value, null) ==
    IF isOwner THEN value
    ELSE IF flag THEN value ELSE null

\* serializeCard without the socials: ...rest, the flags, the gated values
serializeCard(card, isOwner) ==
    [f \in DOMAIN card \ {"kids"} |->
        IF f \in CardSensitive
        THEN Shown(isOwner, card[ShowFlag(f)], Raw(card, f), NullOf(f))
        ELSE card[f]]

\* serializeProfile without avatar, banner and industries
serializeProfile(id, u, isOwner) ==
    LET flags == [g \in {ShowFlag(f) : f \in ProfileSensitive} |-> u[g] = TRUE]
        base == [id |-> id, username |-> Coalesce(u.username, NULL),
                 displayName |-> u.displayName, isOwner |-> isOwner]
        gated == [f \in ProfileSensitive |->
                    Shown(isOwner, flags[ShowFlag(f)], Raw(u, f), NullOf(f))]
        role == IF isOwner THEN [role |-> Coalesce(u.role, "USER")] ELSE <<>>
    IN  WithColumns(WithColumns(WithColumns(base, flags), gated), role)

\* prisma.<table>.findFirst({ where: { slug } }) on a table whose slugs are unique
RowBySlug(kind, slug) ==
    IF SlugTaken(kind, slug)
    THEN CHOOSE id \in RowsOf(kind) : res[id].slug = slug
    ELSE "-"

RespondView(op, id, code, isOwner, body) ==
    /\ resp' = [op |-> op, id |-> id, publishStatus |-> ABSENT, code |-> code,
                foreign |-> FALSE, step |-> "-"]
    /\ view' = IF code = 200 THEN [of |-> op, id |-> id, isOwner |-> isOwner, out |-> body]
               ELSE NoView

\* the fetch by slug with the test of !card || card.publishStatus !== 'PUBLISHED' left out
PublicRow_AnyStatus(kind, slug) == RowBySlug(kind, slug)

\* the row a public fetch by slug finds: published, or none
PublicRow(kind, slug) ==
    IF RowBySlug(kind, slug) # "-" /\ res[RowBySlug(kind, slug)].publishStatus = "PUBLISHED"
    THEN RowBySlug(kind, slug) ELSE "-"

getPublicCardBySlug(caller, slug) ==
    /\ LET id == PublicRow("card", slug) IN
       IF id = "-" THEN RespondView("publicCard", "-", 404, FALSE, <<>>)
       ELSE RespondView("publicCard", id, 200, caller = res[id].userId,
                        serializeCard(res[id], caller = res[id].userId))
    /\ UNCHANGED <<users, res, reqs, offView>>

\* serializeChallenge and serializePortfolio gate nothing
getPublicChallengeBySlug(caller, slug) ==
    /\ LET id == PublicRow("challenge", slug) IN
       IF id = "-" THEN RespondView("publicChallenge", "-", 404, FALSE, <<>>)
       ELSE RespondView("publicChallenge", id, 200, caller = res[id].userId, res[id])
    /\ UNCHANGED <<users, res, reqs, offView>>

getPublicPortfolioBySlug(caller, slug) ==
    /\ LET id == PublicRow("portfolio", slug) IN
       IF id = "-" THEN RespondView("publicPortfolio", "-", 404, FALSE, <<>>)
       ELSE RespondView("publicPortfolio", id, 200, FALSE, res[id])
    /\ UNCHANGED <<users, res, reqs, offView>>

\* GET /api/profile
getProfile(caller) ==
    /\ IF caller = Anon THEN RespondView("profile", "-", 401, FALSE, <<>>)
       ELSE IF users[caller] = NoUser THEN RespondView("profile", caller, 404, FALSE, <<>>)
       ELSE RespondView("profile", caller, 200, TRUE,
                        serializeProfile(caller, users[caller], TRUE))
    /\ UNCHANGED <<users, res, reqs, offView>>

\* GET /api/u/id/:id
getPublicProfileById(caller, id) ==
    /\ IF id \notin UserIds \/ users[id] = NoUser
       THEN RespondView("publicProfile", "-", 404, FALSE, <<>>)
       ELSE RespondView("publicProfile", id, 200, caller = id,
                        serializeProfile(id, users[id], caller = id))
    /\ UNCHANGED <<users, res, reqs, offView>>

\* GET /api/u/:username
getPublicProfileByUsername(caller, username) ==
    /\ IF \E u \in UserIds : users[u] # NoUser /\ users[u].username = username
       THEN LET id == CHOOSE u \in UserIds : users[u] # NoUser /\ users[u].username = username
            IN  RespondView("publicProfileByUsername", id, 200, caller = id,
                            serializeProfile(id, users[id], caller = id))
       ELSE RespondView("publicProfileByUsername", "-", 404, FALSE, <<>>)
    /\ UNCHANGED <<users, res, reqs, offView>>

-----------------------------------------------------------------------------
(* Request bodies                                                           *)

\* the keys of the create and update schemas of each type; none has a userId
Schema(kind, op) ==
    CASE kind = "card" /\ op = "create" -> {"slug", "description", "publishStatus", "socials"}
      [] kind = "card" /\ op = "update" -> {"slug", "description", "publishStatus", "kids"}
      [] kind = "challenge" /\ op = "create" ->
            {"slug", "title", "description", "publishStatus", "status", "kids"}
      [] kind = "challenge" /\ op = "update" ->
            {"slug", "description", "publishStatus", "status", "kids"}
      [] kind = "portfolio" /\ op = "create" ->
            {"slug", "title", "description", "publishStatus", "kids"}
      [] kind = "portfolio" /\ op = "update" ->
            {"slug", "description", "publishStatus", "kids"}

\* validateBody letting every key of the body through
validateBody_Passthrough(schema, body) == body

\* validateBody: req.body = parsed.data, the keys of the schema only
validateBody(schema, body) == [k \in DOMAIN body \cap schema |-> body[k]]

\* POST of a resource: requireSession, validateBody(create schema), the controller
postResource(kind, caller, body) ==
    CASE kind = "card" ->
            createCard(ResIds, caller, validateBody(Schema(kind, "create"), body))
      [] kind = "challenge" ->
            createChallenge(ResIds, caller, validateBody(Schema(kind, "create"), body))
      [] kind = "portfolio" ->
            createPortfolio(ResIds, caller, validateBody(Schema(kind, "create"), body))

\* PATCH of a resource: requireSession, validateBody(update schema), the controller
patchResource(kind, caller, id, body) ==
    CASE kind = "card" ->
            updateCard(caller, id, validateBody(Schema(kind, "update"), body))
      [] kind = "challenge" ->
            updateChallenge(caller, id, validateBody(Schema(kind, "update"), body))
      [] kind = "portfolio" ->
            updatePortfolio(caller, id, validateBody(Schema(kind, "update"), body))

-----------------------------------------------------------------------------
(* The public list of a challenge's submissions                             *)

\* serializeSubmission: the snapshot fields go out as the row holds them
serializeSubmission(s) ==
    [id |-> s.sid, challengeId |-> s.challengeId, submitterId |-> s.submitterId,
     submissionOrder |-> s.submissionOrder, status |-> s.status,
     submitterName |-> s.submitterName, submitterPhone |-> s.submitterPhone,
     submitterSocials |-> s.submitterSocials]

RECURSIVE MapSubmissions(_)
MapSubmissions(rows) ==
    IF rows = <<>> THEN <<>>
    ELSE <<serializeSubmission(Head(rows))>> \o MapSubmissions(Tail(rows))

\* GET /challenges/:id/submissions without ?mine: the rows of the challenge in the
\* order of submissionOrder, for any caller
listSubmissions(caller, id) ==
    /\ resp' = [op |-> "submissions", id |-> id, publishStatus |-> ABSENT, code |-> 200,
                foreign |-> FALSE, step |-> "-"]
    /\ view' = [of |-> "submissions", id |-> id, caller |-> caller,
                out |-> MapSubmissions(SelectSeq(subs, LAMBDA s : s.challengeId = id))]
    /\ UNCHANGED <<users, res, offView>>

-----------------------------------------------------------------------------
(* Updates and deletes as transactions                                      *)

\* a store whose open transactions write through to what other connections read
StoreDuring_WriteThrough(committed, work) == work

\* what other connections read of a row while a transaction that has written `work`
\* is open: prisma.$transaction, one nested write, one cascading delete
StoreDuring(committed, work) == committed

\* the base fields of a patch, without its child collections
BaseOf(body) == [body EXCEPT !.kids = <<>>]

Patched(kind, row, body) ==
    IF kind = "card" THEN CardPatched(row, body) ELSE ChallengePatched(row, body)

TxSteps == {"tx:base", "tx:empty", "tx:fill", "tx:commit", "txd:kids", "txd:row", "txd:commit"}

RespondTx(op, kind, caller, id, code, before, body) ==
    /\ Respond(op, kind, caller, id, ABSENT, code)
    /\ view' = [of |-> "tx", id |-> id, kind |-> kind, before |-> before, body |-> body]

\* updateCard and updateChallenge up to the first write: the session, the row, its owner
TxUpdateBegin(p, kind, caller, id, body) ==
    /\ reqs[p] = Idle
    /\ IF caller = Anon
       THEN RespondTx("txupdate", kind, caller, id, 401, res[id], body) /\ UNCHANGED reqs
       ELSE IF FindOwned(kind, id, caller).kind = "none"
       THEN RespondTx("txupdate", kind, caller, id, 404, res[id], body) /\ UNCHANGED reqs
       ELSE /\ reqs' = [reqs EXCEPT ![p] =
                          [at |-> "tx:base", kind |-> kind, uid |-> caller, id |-> id,
                           body |-> body, before |-> res[id], work |-> res[id]]]
            /\ UNCHANGED <<resp, view>>
    /\ UNCHANGED <<res, offTx>>

\* one write of the transaction: the base row, then deleteMany and create for the
\* collections the body names
TxWrite(p) ==
    /\ reqs[p].at \in {"tx:base", "tx:empty", "tx:fill"}
    /\ LET r == reqs[p]
           named == DOMAIN r.body.kids
           work == IF r.at = "tx:base" THEN Patched(r.kind, r.work, BaseOf(r.body))
                   ELSE IF r.at = "tx:empty"
                   THEN [r.work EXCEPT !.kids = [c \in DOMAIN @ |->
                                                   IF c \in named THEN <<>> ELSE @[c]]]
                   ELSE Patched(r.kind, r.work,
                                [slug |-> <<>>, description |-> ABSENT,
                                 publishStatus |-> ABSENT, status |-> ABSENT,
                                 kids |-> r.body.kids])
           next == IF r.at = "tx:base" THEN (IF named = {} THEN "tx:commit" ELSE "tx:empty")
                   ELSE IF r.at = "tx:empty" THEN "tx:fill" ELSE "tx:commit"
       IN  /\ reqs' = [reqs EXCEPT ![p].work = work, ![p].at = next]
           /\ res' = [res EXCEPT ![r.id] = StoreDuring(@, work)]
    /\ UNCHANGED <<resp, view, offTx>>

\* deleteCard up to its first write
TxDeleteBegin(p, kind, caller, id) ==
    /\ reqs[p] = Idle
    /\ IF caller = Anon
       THEN RespondTx("txdelete", kind, caller, id, 401, res[id], <<>>) /\ UNCHANGED reqs
       ELSE IF FindOwned(kind, id, caller).kind = "none"
       THEN RespondTx("txdelete", kind, caller, id, 404, res[id], <<>>) /\ UNCHANGED reqs
       ELSE /\ reqs' = [reqs EXCEPT ![p] =
                          [at |-> "txd:kids", kind |-> kind, uid |-> caller, id |-> id,
                           body |-> <<>>, before |-> res[id], work |-> res[id]]]
            /\ UNCHANGED <<resp, view>>
    /\ UNCHANGED <<res, offTx>>

\* deleteCard: socialAccount.deleteMany, then digitalNameCard.delete; the cascade of
\* challenge.delete
TxDeleteWrite(p) ==
    /\ reqs[p].at \in {"txd:kids", "txd:row"}
    /\ LET r == reqs[p]
           work == IF r.at = "txd:kids"
                   THEN [r.work EXCEPT !.kids = [c \in DOMAIN @ |-> <<>>]]
                   ELSE NoRow
       IN  /\ reqs' = [reqs EXCEPT ![p].work = work,
                                   ![p].at = IF r.at = "txd:kids" THEN "txd:row"
                                             ELSE "txd:commit"]
           /\ res' = [res EXCEPT ![r.id] = StoreDuring(@, work)]
    /\ UNCHANGED <<resp, view, offTx>>

\* the transaction commits and the handler answers
TxCommit(p) ==
    /\ reqs[p].at \in {"tx:commit", "txd:commit"}
    /\ LET r == reqs[p]
       IN  /\ res' = [res EXCEPT ![r.id] = r.work]
           /\ RespondTx(IF r.at = "tx:commit" THEN "txupdate" ELSE "txdelete",
                        r.kind, r.uid, r.id, 200, r.before, r.body)
    /\ reqs' = [reqs EXCEPT ![p] = Idle]
    /\ UNCHANGED offTx

\* a write of the transaction throws: the transaction ends without a commit and the
\* handler's catch answers
TxFail(p) ==
    /\ reqs[p].at \in TxSteps \ {"tx:commit", "txd:commit"}
    /\ LET r == reqs[p]
       IN  RespondTx(IF r.at \in {"tx:base", "tx:empty", "tx:fill"}
                     THEN "txupdate" ELSE "txdelete",
                     r.kind, r.uid, r.id, 500, r.before, r.body)
    /\ reqs' = [reqs EXCEPT ![p] = Idle]
    /\ UNCHANGED <<res, offTx>>

\* getMyCardById, getMyChallengeById: the row as another connection reads it
readRow(kind, caller, id) ==
    /\ IF caller = Anon
       THEN Respond("read", kind, caller, id, ABSENT, 401) /\ view' = NoView
       ELSE IF FindOwned(kind, id, caller).kind = "none"
       THEN Respond("read", kind, caller, id, ABSENT, 404) /\ view' = NoView
       ELSE /\ Respond("read", kind, caller, id, ABSENT, 200)
            /\ view' = [of |-> "read", id |-> id, row |-> res[id]]
    /\ UNCHANGED <<res, reqs, offTx>>

-----------------------------------------------------------------------------
(* Sessions                                                                 *)

\* expiresIn: '1h', in ticks of the clock
TokenLife == 1

\* the keys a token can be signed with: env.SESSION_SECRET and any other
ServerKey == "SESSION_SECRET"
OtherKey == "other"

\* what a request can carry in the session cookie beside a token
NoCookie == [kind |-> "missing"]
Malformed == [kind |-> "malformed"]

\* jwt.sign(payload, key, { algorithm: 'HS256', expiresIn: '1h' })
SignSession(uid, key) ==
    [kind |-> "jwt", key |-> key, uid |-> uid, cid |-> users[uid].clerkId,
     iat |-> now, exp |-> now + TokenLife]

\* jwt.verify without its test of exp
Verifies_NoExpiry(cookie) == cookie.kind = "jwt" /\ cookie.key = ServerKey

\* jwt.verify(raw, env.SESSION_SECRET) returns the payload: the token parses, its
\* signature is of the key, and the clock has not reached exp
\* jwt.verify followed by the refusal of a token a logout was requested with
Verifies_UntilLogout(cookie) ==
    /\ cookie.kind = "jwt" /\ cookie.key = ServerKey /\ now < cookie.exp
    /\ ~\E c \in cookies : c.token = cookie /\ c.loggedOut

Verifies(cookie) == cookie.kind = "jwt" /\ cookie.key = ServerKey /\ now < cookie.exp

\* readSessionCookie: the payload, or null for no cookie and for every throw of verify
readSessionCookie(cookie) ==
    IF cookie = NoCookie THEN Anon
    ELSE IF Verifies(cookie) THEN cookie.uid ELSE Anon

\* attachUserFromSession: req.user
attachUserFromSession(cookie) == readSessionCookie(cookie)

\* requireSession: next() is reached
requireSession(caller) == caller # Anon

\* recorded with a response: what the request carried in its cookie
CookieCase(cookie) ==
    IF cookie.kind # "jwt" THEN cookie.kind
    ELSE IF cookie.key # ServerKey THEN "signature"
    ELSE IF now >= cookie.exp THEN "expired"
    ELSE "token"

RespondSession(op, cookie, caller, code) ==
    resp' = [op |-> op, id |-> IF caller = Anon THEN "-" ELSE caller,
             publishStatus |-> ABSENT, code |-> code, foreign |-> FALSE,
             step |-> CookieCase(cookie)]

\* POST /session/login of a user who has a row, from setSessionCookie on; the role is
\* no part of the token and is recorded beside it
loginCookie(uid) ==
    /\ users[uid] # NoUser
    /\ cookies' = cookies \cup {[token |-> SignSession(uid, ServerKey),
                                 roleAtIssue |-> users[uid].role, loggedOut |-> FALSE]}
    /\ RespondSession("login", SignSession(uid, ServerKey), uid, 200)
    /\ UNCHANGED <<users, view, offSession>>

\* the role of a user set in the store: the seed script promotes, an operator demotes
setRole(uid, role) ==
    /\ users[uid] # NoUser
    /\ users[uid].role # role
    /\ users' = [users EXCEPT ![uid].role = role]
    /\ UNCHANGED <<resp, view, cookies, offSession>>

\* COOKIE_OPTIONS.domain: env.COOKIE_DOMAIN
CookieDomain == config.COOKIE_DOMAIN

\* the login route from setSessionCookie on: the token, and the attributes of the
\* Set-Cookie header of the response to a request with that Host
sessionLogin(uid, host) ==
    /\ users[uid] # NoUser
    /\ cookies' = cookies \cup {[token |-> SignSession(uid, ServerKey),
                                 roleAtIssue |-> users[uid].role, loggedOut |-> FALSE]}
    /\ RespondSession("login", SignSession(uid, ServerKey), uid, 200)
    /\ view' = [of |-> "set-cookie", host |-> host, domain |-> CookieDomain]
    /\ UNCHANGED <<users, offSession>>

\* POST /session/logout: clearSessionCookie(res) and sendSuccess; the history records
\* the request, the server keeps nothing
sessionLogout(cookie, host) ==
    /\ RespondSession("logout", cookie, attachUserFromSession(cookie), 200)
    /\ view' = [of |-> "clear-cookie", host |-> host, domain |-> CookieDomain]
    /\ cookies' = {IF c.token = cookie THEN [c EXCEPT !.loggedOut = TRUE] ELSE c : c \in cookies}
    /\ UNCHANGED <<users, offSession>>

\* adminOnly with the test of the role left out
AdminAllowed_Any(caller) == caller # Anon /\ users[caller] # NoUser

\* adminOnly: !dbUser || dbUser.role !== 'ADMIN', negated
AdminAllowed(caller) ==
    caller # Anon /\ users[caller] # NoUser /\ users[caller].role = "ADMIN"

\* a route of adminRoutes: requireSession, adminOnly, the handler
adminRoute(cookie) ==
    /\ LET caller == attachUserFromSession(cookie)
           sess == readSessionCookie(cookie)
       IN  IF ~requireSession(caller) THEN RespondSession("admin", cookie, caller, 401)
           ELSE IF sess = Anon THEN RespondSession("admin", cookie, caller, 401)
           ELSE IF ~AdminAllowed(sess) THEN RespondSession("admin", cookie, caller, 403)
           ELSE RespondSession("admin", cookie, caller, 200)
    /\ UNCHANGED <<users, view, cookies, offSession>>

\* GET /challenges: requireSession, listMyChallenges
listMyChallenges(cookie) ==
    /\ LET caller == attachUserFromSession(cookie)
       IN  IF ~requireSession(caller) THEN RespondSession("myChallenges", cookie, caller, 401)
           ELSE RespondSession("myChallenges", cookie, caller, 200)
    /\ UNCHANGED <<users, view, cookies, offSession>>

\* DELETE /digital-name-cards/:id: requireSession, deleteCard; both answer
\* sendUnauthorized to a request without req.user
deleteCardRoute(cookie, id) == deleteCard(attachUserFromSession(cookie), id)

\* the body of GET /session/me
MeBody(id) ==
    [id |-> id, email |-> users[id].email, displayName |-> users[id].displayName,
     plan |-> Coalesce(users[id].plan, "free"),
     subscriptionStatus |-> Coalesce(users[id].subscriptionStatus, NULL),
     currentPeriodEnd |-> users[id].currentPeriodEnd,
     stripeCustomerId |-> Coalesce(users[id].stripeCustomerId, NULL)]

\* GET /session/me: the handler reads req.user.id
sessionMe(cookie) ==
    /\ LET caller == attachUserFromSession(cookie)
           id == IF caller = Anon THEN ABSENT ELSE CallerId(caller)
       IN  IF Falsy(id) \/ id \notin UserIds \/ users[id] = NoUser
           THEN RespondSession("me", cookie, caller, 401) /\ view' = NoView
           ELSE /\ RespondSession("me", cookie, caller, 200)
                /\ view' = [of |-> "me", id |-> id, isOwner |-> TRUE, out |-> MeBody(id)]
    /\ UNCHANGED <<users, cookies, offSession>>

-----------------------------------------------------------------------------
(* Specification of the owned-resource lifecycle: requests of two users     *)
(* and of callers without a session, on one resource at a time              *)

Lists == {<<>>, <<"x">>}
SlugInputs == {<<>>, <<"A", " ">>}
TitleInputs == {<<"b">>}

\* child collections present in a body: any subset of the type's collections
KidPatches(kind) == UNION {[D -> Lists] : D \in SUBSET ChildNames(kind)}
\* a create body names no child collection or gives every one an item
KidCreates(kind) == {<<>>, [c \in ChildNames(kind) |-> <<"x">>]}

Others(body) ==
    (IF body.slug # <<>> THEN 1 ELSE 0) + (IF body.description # ABSENT THEN 1 ELSE 0)
    + Cardinality(DOMAIN body.kids)

\* update bodies: one field, or publishStatus and one other field
SmallPatch(body) ==
    Others(body) <= 1 /\ (body.publishStatus = ABSENT => Others(body) = 1)

CardCreates ==
    [slug : SlugInputs \ {<<>>}, description : {ABSENT},
     publishStatus : PublishStatuses, socials : Lists]
CardPatches ==
    {b \in [slug : {<<>>, <<"b">>}, description : {ABSENT},
            publishStatus : {ABSENT} \cup PublishStatuses,
            kids : KidPatches("card")] : SmallPatch(b)}
ChallengeCreates ==
    [slug : SlugInputs, title : TitleInputs, description : {ABSENT},
     publishStatus : {ABSENT} \cup PublishStatuses, status : {ABSENT},
     kids : KidCreates("challenge")]
ChallengePatches ==
    {b \in [slug : SlugInputs, description : {ABSENT},
            publishStatus : {ABSENT} \cup PublishStatuses, status : {ABSENT},
            kids : KidPatches("challenge")] : SmallPatch(b)}
PortfolioCreates ==
    [slug : SlugInputs, title : TitleInputs, description : {ABSENT},
     publishStatus : {ABSENT} \cup PublishStatuses,
     kids : KidCreates("portfolio")]
PortfolioPatches ==
    {b \in [slug : SlugInputs, description : {ABSENT},
            publishStatus : {ABSENT} \cup PublishStatuses,
            kids : KidPatches("portfolio")] : SmallPatch(b)}

\* the rows this specification creates and updates
OneRow == {"r1"}

InitRes ==
    /\ users = SeedUsers
    /\ res = [id \in ResIds |-> NoRow]
    /\ now = 1
    /\ resp = NoResp
    /\ subs = <<>>
    /\ reqs = [p \in Procs |-> Idle]
    /\ issued = <<>>
    /\ profiled = {}
    /\ loggedIn = ClerkIds
    /\ stripe = NoSessions
    /\ subscriptions = <<>>
    /\ finalized = NoneFinalized
    /\ view = NoView
    /\ cookies = {}
    /\ customers = <<>>
    /\ config = NoConfig

NextRes ==
    \/ Tick
    \/ \E caller \in Callers, input \in CardCreates : createCard(OneRow, caller, input)
    \/ \E caller \in Callers, id \in ResIds : getMyCardById(caller, id)
    \/ \E caller \in Callers, id \in OneRow, input \in CardPatches : updateCard(caller, id, input)
    \/ \E caller \in Callers, id \in ResIds : deleteCard(caller, id)
    \/ \E caller \in Callers, payload \in ChallengeCreates :
            createChallenge(OneRow, caller, payload)
    \/ \E caller \in Callers, id \in ResIds : getMyChallengeById(caller, id)
    \/ \E caller \in Callers, id \in OneRow, body \in ChallengePatches :
            updateChallenge(caller, id, body)
    \/ \E caller \in Callers, id \in ResIds : deleteChallenge(caller, id)
    \/ \E caller \in Callers, data \in PortfolioCreates : createPortfolio(OneRow, caller, data)
    \/ \E caller \in Callers, id \in ResIds : getMyPortfolioById(caller, id)
    \/ \E caller \in Callers, id \in OneRow, body \in PortfolioPatches :
            updatePortfolio(caller, id, body)
    \/ \E caller \in Callers, id \in ResIds : deletePortfolio(caller, id)

SpecRes == InitRes /\ [][NextRes]_vars

-----------------------------------------------------------------------------
(* Specification of the submissions of one challenge: two requests in       *)
(* flight at a time, by two users and by callers without a session, while   *)
(* the owner closes and reopens the challenge                               *)

Owners == {"u1"}
OpenChallenges ==
    [slug : {<<>>}, title : TitleInputs, description : {ABSENT},
     publishStatus : {"PUBLISHED"}, status : {ABSENT}, kids : {<<>>}]
StatusPatches ==
    [slug : {<<>>}, description : {ABSENT}, publishStatus : {ABSENT},
     status : {"OPEN", "CLOSED"}, kids : {<<>>}]

NextSub ==
    \/ \E caller \in Owners, payload \in OpenChallenges :
            createChallenge(OneRow, caller, payload)
    \/ \E caller \in Owners, id \in OneRow, body \in StatusPatches :
            updateChallenge(caller, id, body)
    \/ \E p \in Procs, caller \in Callers, id \in ResIds : SubmitBegin(p, caller, id)
    \/ \E p \in Procs : SubmitFind(p)
    \/ \E p \in Procs : SubmitSnapshot(p)
    \/ \E p \in Procs : SubmitCommit(p)
    \/ \E p \in Procs, caller \in Callers, id \in ResIds : WithdrawBegin(p, caller, id)
    \/ \E p \in Procs : WithdrawDelete(p)

SpecSub == InitRes /\ [][NextSub]_vars

-----------------------------------------------------------------------------
(* Specification of the identity bridge and the profile path for one        *)
(* external id: a login and a profile update in flight together             *)

\* the username the identity provider holds for an external id
ProviderName(clerkId) == IF clerkId = "c1" THEN "bob" ELSE "cat"

NoClaims ==
    [clerkId |-> "-", username |-> ABSENT, email |-> "e", displayName |-> "N",
     country |-> ABSENT, phone |-> ABSENT, religion |-> ABSENT]

\* the claims of a login: the provider's username or none, and at most one of the
\* sensitive fields of the body, empty or not
LoginClaims ==
    {[NoClaims EXCEPT !.username = n] : n \in {ABSENT, "bob"}}
    \cup {[NoClaims EXCEPT ![f] = v] : f \in {"country", "phone", "religion"}, v \in {"", "x"}}

NoProfile ==
    [username |-> ABSENT, country |-> ABSENT, phone |-> ABSENT, religion |-> ABSENT]
\* the bodies of a profile update: one field, never empty
ProfileInputs ==
    {[NoProfile EXCEPT !.username = "ann"]}
    \cup {[NoProfile EXCEPT ![f] = "y"] : f \in {"country", "phone", "religion"}}

InitUser ==
    /\ users = [u \in UserIds |-> NoUser]
    /\ res = [id \in ResIds |-> NoRow]
    /\ now = 1
    /\ resp = NoResp
    /\ subs = <<>>
    /\ reqs = [p \in Procs |-> Idle]
    /\ issued = <<>>
    /\ profiled = {}
    /\ loggedIn = {}
    /\ stripe = NoSessions
    /\ subscriptions = <<>>
    /\ finalized = NoneFinalized
    /\ view = NoView
    /\ cookies = {}
    /\ customers = <<>>
    /\ config = NoConfig

\* one login and one profile update in flight at a time
LoginProcs == {"p1"}
ProfileProcs == {"p2"}

NextUser ==
    \/ \E p \in LoginProcs, token \in {ABSENT, "bad", "c1"} : LoginBegin(p, token)
    \/ \E p \in LoginProcs, claims \in LoginClaims : LoginWrite(p, claims)
    \/ \E p \in ProfileProcs, caller \in Callers, input \in ProfileInputs :
            ProfileBegin(p, caller, input)
    \/ \E p \in ProfileProcs : ProfileWrite(p)

SpecUser == InitUser /\ [][NextUser]_vars

-----------------------------------------------------------------------------
(* Specification of concurrent logins: two logins in flight, for the same   *)
(* or for different external ids                                            *)

RaceClaims == {NoClaims, [NoClaims EXCEPT !.phone = "x"]}

NextLogin ==
    \/ \E p \in Procs, token \in ClerkIds : LoginBegin(p, token)
    \/ \E p \in Procs, claims \in RaceClaims : LoginWrite(p, claims)

SpecLogin == InitUser /\ [][NextLogin]_vars

-----------------------------------------------------------------------------
(* Specification of the billing reconciliation: two finalize requests in    *)
(* flight, over a checkout session with a subscription and one without or   *)
(* with a second subscription of the same customer                          *)

\* how the owner can be found: the metadata of the subscription and of the session,
\* and the customer
OwnerCases ==
    {[sub |-> ABSENT, session |-> "u1", customer |-> "cus1"],
     [sub |-> "", session |-> ABSENT, customer |-> "cus1"],
     [sub |-> "", session |-> "u2", customer |-> "cus1"],
     [sub |-> ABSENT, session |-> ABSENT, customer |-> "cus9"]}

\* how the plan can be found: the lookup key, the metadata, the price id
PriceCases ==
    {[lookup_key |-> "pro_monthly", id |-> "price_x", plan |-> ABSENT],
     [lookup_key |-> NULL, id |-> "price_x", plan |-> "basic"],
     [lookup_key |-> NULL, id |-> "price_ultimate", plan |-> ABSENT],
     [lookup_key |-> NULL, id |-> "price_x", plan |-> ABSENT]}

Session(subId, owner, price) ==
    [subscription |->
        [id |-> subId, customer |-> owner.customer,
         metadata |-> [appUserId |-> owner.sub, plan |-> price.plan],
         price |-> [lookup_key |-> price.lookup_key, id |-> price.id],
         status |-> "active", current_period_end |-> 1],
     metadata |-> [appUserId |-> owner.session, plan |-> ABSENT]]

\* each way of finding the owner with one way of finding the plan, and back
Worlds ==
    {w \in [owner : OwnerCases, price : PriceCases] :
        \/ w.price.lookup_key = "pro_monthly"
        \/ (w.owner.sub = "" /\ w.owner.session = ABSENT)}

\* a second subscription of the customer of u1
OtherSession ==
    Session("sub2", [sub |-> "", session |-> ABSENT, customer |-> "cus1"],
            [lookup_key |-> "basic_monthly", id |-> "price_basic", plan |-> ABSENT])

InitBilling ==
    /\ users = [SeedUsers EXCEPT !["u1"].stripeCustomerId = "cus1"]
    /\ res = [id \in ResIds |-> NoRow]
    /\ now = 1
    /\ resp = NoResp
    /\ subs = <<>>
    /\ reqs = [p \in Procs |-> Idle]
    /\ issued = <<>>
    /\ profiled = {}
    /\ loggedIn = ClerkIds
    /\ \E world \in Worlds, other \in {NoSession, OtherSession} :
          stripe = [cs \in CsIds |->
                      IF cs = "cs1" THEN Session("sub1", world.owner, world.price)
                      ELSE other]
    /\ subscriptions = <<>>
    /\ finalized = NoneFinalized
    /\ view = NoView
    /\ cookies = {}
    /\ customers = <<>>
    /\ config = NoConfig

\* the session_id of the requests: the second session is finalized on one process
SessionInputs(p) ==
    IF p = "p1" THEN {"cs1"} ELSE {ABSENT, "cs1", "cs2", "cs9"}

NextBilling ==
    \/ \E p \in Procs, caller \in Callers :
            \E sessionId \in SessionInputs(p) : FinalizeRetrieve(p, caller, sessionId)
    \/ \E p \in Procs : FinalizeResolve(p)
    \/ \E p \in Procs : FinalizeUpsert(p)
    \/ \E p \in Procs : FinalizeUser(p)
    \/ \E sessionId \in {"cs1"}, status \in {"past_due"} : StripeChange(sessionId, status)

SpecBilling == InitBilling /\ [][NextBilling]_vars

-----------------------------------------------------------------------------
(* Specification of slugs under concurrency: two creates or slug updates    *)
(* in flight, of any of the three resource types, by two users              *)

RaceSlugs == {<<"a">>, <<"b">>}
\* create bodies that all ask for the slug "a": taken as it is, from the title, trimmed
RaceCreates(kind) ==
    CASE kind = "card" ->
            [slug : {<<"a">>}, description : {ABSENT}, publishStatus : {"DRAFT"},
             socials : {<<>>}]
      [] kind = "challenge" ->
            [slug : {<<>>}, title : {<<"A", " ">>}, description : {ABSENT},
             publishStatus : {ABSENT}, status : {ABSENT}, kids : {<<>>}]
      [] kind = "portfolio" ->
            [slug : {<<"a", " ">>}, title : {<<"b">>}, description : {ABSENT},
             publishStatus : {ABSENT}, kids : {<<>>}]

\* the callers of the requests of each process
RaceCallers(p) == IF p = "p1" THEN {"u1", Anon} ELSE {"u2"}

NextSlug ==
    \/ \E p \in Procs, kind \in Kinds :
            \E caller \in RaceCallers(p), input \in RaceCreates(kind) :
                CreateProbe(p, kind, caller, input)
    \/ \E p \in Procs : CreateWrite(p)
    \/ \E p \in Procs, kind \in Kinds, id \in ResIds, slug \in RaceSlugs :
            \E caller \in RaceCallers(p) : UpdateProbe(p, kind, caller, id, slug)
    \/ \E p \in Procs : UpdateWrite(p)

SpecSlug == InitRes /\ [][NextSlug]_vars

-----------------------------------------------------------------------------
(* Specification of the views: one published name-card and the profile of   *)
(* its owner, with every combination of hidden and shown sensitive fields,  *)
(* fetched by the owner, by another user and without a session              *)

Birthday == <<2000, 1, 2, 12>>

\* the values and the flags of the sensitive fields: every combination
CardColumns ==
    {WithColumns(vals, [g \in {ShowFlag(f) : f \in CardSensitive} |-> g \in shown])
        : vals \in [CardSensitive -> {NULL, "x"}],
          shown \in SUBSET {ShowFlag(f) : f \in CardSensitive}}

ProfileColumns ==
    {WithColumns([f \in ProfileSensitive |->
                    IF f \notin set THEN NullOf(f)
                    ELSE IF f = "dateOfBirth" THEN Birthday ELSE "x"],
                 [g \in {ShowFlag(f) : f \in ProfileSensitive} |-> g \in shown])
        : set \in SUBSET ProfileSensitive,
          shown \in SUBSET {ShowFlag(f) : f \in ProfileSensitive}}

PlainCard ==
    [phone |-> "x", religion |-> NULL, company |-> NULL, university |-> NULL,
     country |-> NULL, showPhone |-> FALSE, showReligion |-> FALSE,
     showCompany |-> FALSE, showUniversity |-> FALSE, showCountry |-> FALSE]
PlainProfile ==
    [email |-> "e1", phone |-> NULL, country |-> NULL, religion |-> NULL,
     dateOfBirth |-> NoDay, showEmail |-> FALSE, showPhone |-> FALSE,
     showCountry |-> FALSE, showReligion |-> FALSE, showDateOfBirth |-> FALSE]

\* the card, or the profile, takes every combination
ViewWorlds ==
    {[card |-> c, profile |-> PlainProfile] : c \in CardColumns}
    \cup {[card |-> PlainCard, profile |-> pr] : pr \in ProfileColumns}

PublishedCard ==
    [slug |-> <<"a">>, description |-> ABSENT, publishStatus |-> "PUBLISHED",
     socials |-> <<>>]

InitView ==
    /\ now = 1
    /\ \E w \in ViewWorlds :
          /\ users = [u \in UserIds |->
                        IF u = "u1"
                        THEN WithColumns([SeedUsers[u] EXCEPT !.username = "ann"], w.profile)
                        ELSE WithColumns(SeedUsers[u], PlainProfile)]
          /\ res = [id \in ResIds |->
                      IF id = "r1"
                      THEN WithColumns(CardCreateData("u1", PublishedCard), w.card)
                      ELSE NoRow]
    /\ resp = NoResp
    /\ subs = <<>>
    /\ reqs = [p \in Procs |-> Idle]
    /\ issued = <<>>
    /\ profiled = {"u1"}
    /\ loggedIn = ClerkIds
    /\ stripe = NoSessions
    /\ subscriptions = <<>>
    /\ finalized = NoneFinalized
    /\ view = NoView
    /\ cookies = {}
    /\ customers = <<>>
    /\ config = NoConfig

NextView ==
    \/ \E caller \in Callers, slug \in RaceSlugs : getPublicCardBySlug(caller, slug)
    \/ \E caller \in Callers : getProfile(caller)
    \/ \E caller \in Callers, id \in UserIds \cup {"u9"} : getPublicProfileById(caller, id)
    \/ \E caller \in Callers, username \in {"ann", "zed"} :
            getPublicProfileByUsername(caller, username)

SpecView == InitView /\ [][NextView]_vars

-----------------------------------------------------------------------------
(* Specification of the public fetch by slug: a resource of any of the      *)
(* three types created, published, unpublished and deleted by its owner,    *)
(* and fetched by slug by the owner, by another user and without a session  *)

\* every resource of this specification asks for the slug "a"
PublicSlug == <<"a">>
PublicCreates(kind) ==
    CASE kind = "card" ->
            [slug : {PublicSlug}, description : {ABSENT}, publishStatus : PublishStatuses,
             socials : {<<>>}]
      [] kind = "challenge" ->
            [slug : {PublicSlug}, title : TitleInputs, description : {ABSENT},
             publishStatus : {ABSENT} \cup PublishStatuses, status : {ABSENT}, kids : {<<>>}]
      [] kind = "portfolio" ->
            [slug : {PublicSlug}, title : TitleInputs, description : {ABSENT},
             publishStatus : {ABSENT} \cup PublishStatuses, kids : {<<>>}]
\* update bodies that hold a publishStatus only
PublicPatches(kind) ==
    IF kind = "challenge"
    THEN [slug : {<<>>}, description : {ABSENT}, publishStatus : PublishStatuses,
          status : {ABSENT}, kids : {<<>>}]
    ELSE [slug : {<<>>}, description : {ABSENT}, publishStatus : PublishStatuses,
          kids : {<<>>}]

NextPublic ==
    \/ \E caller \in UserIds, input \in PublicCreates("card") : createCard(OneRow, caller, input)
    \/ \E caller \in UserIds, id \in OneRow, input \in PublicPatches("card") :
            updateCard(caller, id, input)
    \/ \E caller \in UserIds, id \in OneRow : deleteCard(caller, id)
    \/ \E caller \in UserIds, payload \in PublicCreates("challenge") :
            createChallenge(OneRow, caller, payload)
    \/ \E caller \in UserIds, id \in OneRow, body \in PublicPatches("challenge") :
            updateChallenge(caller, id, body)
    \/ \E caller \in UserIds, id \in OneRow : deleteChallenge(caller, id)
    \/ \E caller \in UserIds, data \in PublicCreates("portfolio") :
            createPortfolio(OneRow, caller, data)
    \/ \E caller \in UserIds, id \in OneRow, body \in PublicPatches("portfolio") :
            updatePortfolio(caller, id, body)
    \/ \E caller \in UserIds, id \in OneRow : deletePortfolio(caller, id)
    \/ \E caller \in Callers : getPublicCardBySlug(caller, PublicSlug)
    \/ \E caller \in Callers : getPublicChallengeBySlug(caller, PublicSlug)
    \/ \E caller \in Callers : getPublicPortfolioBySlug(caller, PublicSlug)

SpecPublic == InitRes /\ [][NextPublic]_vars

-----------------------------------------------------------------------------
(* Specification of child collections: one resource of each type in turn,   *)
(* created with or without children, its collections replaced by updates    *)

KidLists == {<<>>, <<"x">>, <<"y", "x">>}

\* update bodies that name any subset of the type's collections and nothing else
KidOnly(kind) ==
    UNION {[D -> KidLists] : D \in SUBSET ChildNames(kind)}
KidCardPatches ==
    [slug : {<<>>}, description : {ABSENT}, publishStatus : {ABSENT},
     kids : KidOnly("card")]
KidChallengePatches ==
    [slug : {<<>>}, description : {ABSENT}, publishStatus : {ABSENT}, status : {ABSENT},
     kids : KidOnly("challenge")]
KidPortfolioPatches ==
    [slug : {<<>>}, description : {ABSENT}, publishStatus : {ABSENT},
     kids : KidOnly("portfolio")]
KidCardCreates ==
    [slug : {<<"a">>}, description : {ABSENT}, publishStatus : {"DRAFT"},
     socials : KidLists]
KidChallengeCreates ==
    [slug : {<<>>}, title : TitleInputs, description : {ABSENT},
     publishStatus : {ABSENT}, status : {ABSENT}, kids : KidOnly("challenge")]
KidPortfolioCreates ==
    [slug : {<<>>}, title : TitleInputs, description : {ABSENT},
     publishStatus : {ABSENT}, kids : KidOnly("portfolio")]

NextKids ==
    \/ \E caller \in UserIds, input \in KidCardCreates : createCard(OneRow, caller, input)
    \/ \E caller \in UserIds, input \in KidCardPatches : updateCard(caller, "r1", input)
    \/ \E caller \in UserIds : deleteCard(caller, "r1")
    \/ \E caller \in UserIds, payload \in KidChallengeCreates :
            createChallenge(OneRow, caller, payload)
    \/ \E caller \in UserIds, body \in KidChallengePatches :
            updateChallenge(caller, "r1", body)
    \/ \E caller \in UserIds : deleteChallenge(caller, "r1")
    \/ \E caller \in UserIds, data \in KidPortfolioCreates :
            createPortfolio(OneRow, caller, data)
    \/ \E caller \in UserIds, body \in KidPortfolioPatches :
            updatePortfolio(caller, "r1", body)
    \/ \E caller \in UserIds : deletePortfolio(caller, "r1")

SpecKids == InitRes /\ [][NextKids]_vars

-----------------------------------------------------------------------------
(* Specification of atomic writes: a card or a challenge of one user,       *)
(* updated and deleted by requests whose writes can fail at any point,      *)
(* while the owner reads the row                                            *)

\* a body names no collection, or all of them with no item or one new item each
TxKids(kind) == {<<>>} \cup {[c \in ChildNames(kind) |-> l] : l \in {<<>>, <<"y">>}}
TxCardPatches ==
    [slug : {<<>>}, description : {ABSENT, "d"}, publishStatus : {ABSENT},
     status : {ABSENT}, kids : TxKids("card")]
TxChallengePatches ==
    [slug : {<<>>}, description : {ABSENT, "d"}, publishStatus : {ABSENT},
     status : {ABSENT, "CLOSED"}, kids : TxKids("challenge")]
TxCardCreates ==
    [slug : {<<"a">>}, description : {ABSENT}, publishStatus : {"DRAFT"},
     socials : {<<"x">>}]
TxChallengeCreates ==
    [slug : {<<>>}, title : TitleInputs, description : {ABSENT},
     publishStatus : {ABSENT}, status : {ABSENT},
     kids : {[c \in ChildNames("challenge") |-> <<"x">>]}]
TxPatches(kind) == IF kind = "card" THEN TxCardPatches ELSE TxChallengePatches
TxKinds == {"card", "challenge"}

NextAtomic ==
    \/ \E input \in TxCardCreates : createCard(OneRow, "u1", input)
    \/ \E payload \in TxChallengeCreates : createChallenge(OneRow, "u1", payload)
    \/ \E kind \in TxKinds, caller \in Callers :
            \E body \in TxPatches(kind) : TxUpdateBegin("p1", kind, caller, "r1", body)
    \/ TxWrite("p1")
    \/ \E kind \in TxKinds, caller \in Callers : TxDeleteBegin("p1", kind, caller, "r1")
    \/ TxDeleteWrite("p1")
    \/ TxCommit("p1")
    \/ TxFail("p1")
    \/ \E kind \in TxKinds, caller \in Callers : readRow(kind, caller, "r1")

SpecAtomic == InitRes /\ [][NextAtomic]_vars

-----------------------------------------------------------------------------
(* Specification of scalar patches: one resource of each type in turn,      *)
(* created with a description and patched with a description that is        *)
(* absent, null or a new value, alone or with a publication status          *)

ScalarInputs == {ABSENT, NULL, "e"}
ScalarStatuses == {ABSENT, "DRAFT", "PUBLISHED"}
ScalarCardPatches ==
    [slug : {<<>>}, description : ScalarInputs, publishStatus : ScalarStatuses,
     kids : {<<>>}]
ScalarChallengePatches ==
    [slug : {<<>>}, description : ScalarInputs, publishStatus : ScalarStatuses,
     status : {ABSENT}, kids : {<<>>}]
ScalarPortfolioPatches ==
    [slug : {<<>>}, description : ScalarInputs, publishStatus : ScalarStatuses,
     kids : {<<>>}]
ScalarCardCreates ==
    [slug : {<<"a">>}, description : {ABSENT, "d"}, publishStatus : {"DRAFT"},
     socials : {<<>>}]
ScalarChallengeCreates ==
    [slug : {<<>>}, title : TitleInputs, description : {ABSENT, "d"},
     publishStatus : {ABSENT}, status : {ABSENT}, kids : {<<>>}]
ScalarPortfolioCreates ==
    [slug : {<<>>}, title : TitleInputs, description : {ABSENT, "d"},
     publishStatus : {ABSENT}, kids : {<<>>}]

NextScalar ==
    \/ \E caller \in UserIds, input \in ScalarCardCreates :
            createCard(OneRow, caller, input)
    \/ \E caller \in UserIds, input \in ScalarCardPatches : updateCard(caller, "r1", input)
    \/ \E caller \in UserIds : deleteCard(caller, "r1")
    \/ \E caller \in UserIds, payload \in ScalarChallengeCreates :
            createChallenge(OneRow, caller, payload)
    \/ \E caller \in UserIds, body \in ScalarChallengePatches :
            updateChallenge(caller, "r1", body)
    \/ \E caller \in UserIds : deleteChallenge(caller, "r1")
    \/ \E caller \in UserIds, data \in ScalarPortfolioCreates :
            createPortfolio(OneRow, caller, data)
    \/ \E caller \in UserIds, body \in ScalarPortfolioPatches :
            updatePortfolio(caller, "r1", body)
    \/ \E caller \in UserIds : deletePortfolio(caller, "r1")

SpecScalar == InitRes /\ [][NextScalar]_vars

-----------------------------------------------------------------------------
(* Specification of slug allocation: challenges and portfolios created from *)
(* titles that normalize to a word or to nothing, and deleted               *)

AllocTitles == {<<"B", " ">>, <<"!">>}
AllocChallengeCreates ==
    [slug : {<<>>}, title : AllocTitles, description : {ABSENT},
     publishStatus : {ABSENT, "PUBLISHED"}, status : {ABSENT}, kids : {<<>>}]
AllocPortfolioCreates ==
    [slug : {<<>>}, title : AllocTitles, description : {ABSENT},
     publishStatus : {ABSENT, "PUBLISHED"}, kids : {<<>>}]

NextAlloc ==
    \/ \E caller \in UserIds, payload \in AllocChallengeCreates :
            createChallenge(ResIds, caller, payload)
    \/ \E caller \in UserIds, id \in ResIds : deleteChallenge(caller, id)
    \/ \E caller \in UserIds, data \in AllocPortfolioCreates :
            createPortfolio(ResIds, caller, data)
    \/ \E caller \in UserIds, id \in ResIds : deletePortfolio(caller, id)

SpecAlloc == InitRes /\ [][NextAlloc]_vars

-----------------------------------------------------------------------------
(* Specification of billing customers: checkouts of two users with no       *)
(* linked customer, two requests in flight                                  *)

PlanInputs == {"pro", "gold"}

NextCustomer ==
    \/ \E p \in Procs, caller \in Callers, plan \in PlanInputs :
            CheckoutBegin(p, caller, plan)
    \/ \E p \in Procs : CustomerCreate(p)
    \/ \E p \in Procs : CustomerStore(p)

SpecCustomer == InitRes /\ [][NextCustomer]_vars

-----------------------------------------------------------------------------
(* Specification of the public list: an open challenge of one user, both    *)
(* users with every combination of a phone and its flag, submitting,        *)
(* withdrawing and listing                                                  *)

PhoneInputs == {NULL, "x"}
PhoneProfiles ==
    {WithColumns(PlainProfile, [phone |-> ph, showPhone |-> shown])
        : ph \in PhoneInputs, shown \in BOOLEAN}
\* the row of a challenge created PUBLISHED at time 1: open, with no children
OpenChallenge ==
    NewRow("challenge", "u1", <<"b">>, NULL, "PUBLISHED", 1, "OPEN",
           [c \in {"prizes", "images"} |-> <<>>])

InitPhone ==
    /\ now = 1
    /\ \E pr \in [UserIds -> PhoneProfiles] :
          users = [u \in UserIds |-> WithColumns(SeedUsers[u], pr[u])]
    /\ res = [id \in ResIds |->
                IF id = "r1" THEN OpenChallenge ELSE NoRow]
    /\ resp = NoResp
    /\ subs = <<>>
    /\ reqs = [p \in Procs |-> Idle]
    /\ issued = <<>>
    /\ profiled = UserIds
    /\ loggedIn = ClerkIds
    /\ stripe = NoSessions
    /\ subscriptions = <<>>
    /\ finalized = NoneFinalized
    /\ view = NoView
    /\ cookies = {}
    /\ customers = <<>>
    /\ config = NoConfig

NextPhone ==
    \/ \E caller \in UserIds : SubmitBegin("p1", caller, "r1")
    \/ SubmitFind("p1")
    \/ SubmitSnapshot("p1")
    \/ SubmitCommit("p1")
    \/ \E caller \in UserIds : WithdrawBegin("p1", caller, "r1")
    \/ WithdrawDelete("p1")
    \/ \E caller \in Callers : listSubmissions(caller, "r1")

SpecPhone == InitPhone /\ [][NextPhone]_vars

-----------------------------------------------------------------------------
(* Specification of ownership: one user creates resources of each type and  *)
(* both users patch them, every body naming an owner of its own             *)

Creator == "u1"
NamedOwners == {"u2", "zz"}
Naming(bodies) == {WithColumns(b, [userId |-> o]) : b \in bodies, o \in NamedOwners}
OwnerCreates(kind) ==
    CASE kind = "card" ->
            [slug : {<<"a">>, <<"c">>}, description : {ABSENT},
             publishStatus : {"DRAFT", "PUBLISHED"}, socials : {<<>>}]
      [] kind = "challenge" ->
            [slug : {<<>>}, title : TitleInputs, description : {ABSENT},
             publishStatus : {ABSENT, "PUBLISHED"}, status : {ABSENT}, kids : {<<>>}]
      [] kind = "portfolio" ->
            [slug : {<<>>}, title : TitleInputs, description : {ABSENT},
             publishStatus : {ABSENT, "PUBLISHED"}, kids : {<<>>}]
OwnerPatches(kind) ==
    CASE kind = "card" -> ScalarCardPatches
      [] kind = "challenge" -> ScalarChallengePatches
      [] kind = "portfolio" -> ScalarPortfolioPatches

NextOwner ==
    \/ \E kind \in TxKinds \cup {"portfolio"} :
            \E body \in Naming(OwnerCreates(kind)) : postResource(kind, Creator, body)
    \/ \E kind \in TxKinds \cup {"portfolio"}, caller \in UserIds, id \in ResIds :
            \E body \in Naming(OwnerPatches(kind)) : patchResource(kind, caller, id, body)

SpecOwner == InitRes /\ [][NextOwner]_vars

-----------------------------------------------------------------------------
(* Specification of roles: an administrator and a user log in, update their *)
(* profiles with bodies that name a role, write cards, submit to an open    *)
(* challenge and finalize a checkout                                        *)

InitialRole(u) == IF u = "u1" THEN "ADMIN" ELSE "USER"
RoleBodies ==
    {[NoProfileBody EXCEPT !.username = "ann"], WithColumns(NoProfileBody, [role |-> "ADMIN"])}
RoleCardCreates ==
    [slug : {<<"a">>}, description : {ABSENT}, publishStatus : {"DRAFT"}, socials : {<<>>},
     role : {"ADMIN"}]
RoleCardPatches ==
    [slug : {<<>>}, description : {"e"}, publishStatus : {ABSENT}, kids : {<<>>},
     role : {"ADMIN"}]

InitRole ==
    /\ users = [u \in UserIds |->
                  [SeedUsers[u] EXCEPT !.role = InitialRole(u),
                                       !.stripeCustomerId = IF u = "u1" THEN "cus1" ELSE NULL]]
    /\ res = [id \in ResIds |-> IF id = "r1" THEN OpenChallenge ELSE NoRow]
    /\ now = 1
    /\ resp = NoResp
    /\ subs = <<>>
    /\ reqs = [p \in Procs |-> Idle]
    /\ issued = <<>>
    /\ profiled = {}
    /\ loggedIn = ClerkIds
    /\ stripe = [cs \in CsIds |->
                   IF cs = "cs1"
                   THEN Session("sub1", [sub |-> ABSENT, session |-> "u1", customer |-> "cus1"],
                                [lookup_key |-> "pro_monthly", id |-> "price_x",
                                 plan |-> ABSENT])
                   ELSE NoSession]
    /\ subscriptions = <<>>
    /\ finalized = NoneFinalized
    /\ view = NoView
    /\ cookies = {}
    /\ customers = <<>>
    /\ config = NoConfig

NextRole ==
    \/ \E token \in ClerkIds : LoginBegin("p1", token)
    \/ \E claims \in {NoClaims} : LoginWrite("p1", claims)
    \/ \E caller \in UserIds, body \in RoleBodies : patchProfile("p2", caller, body)
    \/ ProfileWrite("p2")
    \/ \E caller \in {"u2"}, body \in RoleCardCreates : postResource("card", caller, body)
    \/ \E caller \in {"u2"}, body \in RoleCardPatches :
            patchResource("card", caller, "r2", body)
    \/ \E caller \in {"u2"} : SubmitBegin("p1", caller, "r1")
    \/ SubmitFind("p1")
    \/ SubmitSnapshot("p1")
    \/ SubmitCommit("p1")
    \/ \E caller \in {"u1"} : FinalizeRetrieve("p2", caller, "cs1")
    \/ FinalizeResolve("p2")
    \/ FinalizeUpsert("p2")
    \/ FinalizeUser("p2")

SpecRole == InitRole /\ [][NextRole]_vars

-----------------------------------------------------------------------------
(* Specification of moderation: two users publish challenges, one of them   *)
(* submits to either challenge, one request at a time, and both set the     *)
(* status of submissions through either challenge                           *)

\* the statuses a request body gives, or none
StatusInputs == {ABSENT, "APPROVED", "REJECTED"}

\* the submission ids a path can name: those handed out so far, and one that is not
SubmissionIds == 0..Len(issued)

\* the users who submit
Submitters == {"u2"}

NextModerate ==
    \/ \E caller \in UserIds, payload \in OpenChallenges :
            createChallenge(ResIds, caller, payload)
    \/ \E caller \in Submitters, id \in ResIds : SubmitBegin("p1", caller, id)
    \/ SubmitFind("p1")
    \/ SubmitSnapshot("p1")
    \/ SubmitCommit("p1")
    \/ \E caller \in Callers, challengeId \in ResIds, submissionId \in SubmissionIds,
          status \in StatusInputs :
            updateSubmissionStatus(caller, challengeId, submissionId, status)

SpecModerate == InitRes /\ [][NextModerate]_vars

-----------------------------------------------------------------------------
(* Specification of sessions: logins of two users as the clock advances and *)
(* their roles change, and requests to session-gated and admin-gated routes *)
(* with every cookie a client can present                                   *)

\* the cookies a request can carry: none, garbage, a token the server signed, or a
\* token of any user signed now with another key
Presented ==
    {NoCookie, Malformed} \cup {c.token : c \in cookies}
        \cup {SignSession(uid, OtherKey) : uid \in UserIds}

\* the users who log in and whose role changes
SessionUsers == {"u1"}

NextSession ==
    \/ Tick
    \/ \E uid \in SessionUsers : loginCookie(uid)
    \/ \E uid \in SessionUsers, role \in {"USER", "ADMIN"} : setRole(uid, role)
    \/ \E cookie \in Presented : adminRoute(cookie)
    \/ \E cookie \in Presented : listMyChallenges(cookie)
    \/ \E cookie \in Presented : deleteCardRoute(cookie, "r1")
    \/ \E cookie \in Presented : sessionMe(cookie)

SpecSession == InitRes /\ [][NextSession]_vars

-----------------------------------------------------------------------------
(* Specification of the session cookie's attributes: logins and logouts     *)
(* that reach the server under several hosts, for each configured domain    *)

Hosts ==
    {<<"localhost">>, <<"streakling", "com">>, <<"api", "streakling", "com">>,
     <<"evil", "com">>}
ConfiguredDomains == {NoDomain, <<"streakling", "com">>, <<"localhost">>}

InitCookie ==
    /\ users = SeedUsers
    /\ res = [id \in ResIds |-> NoRow]
    /\ now = 1
    /\ resp = NoResp
    /\ subs = <<>>
    /\ reqs = [p \in Procs |-> Idle]
    /\ issued = <<>>
    /\ profiled = {}
    /\ loggedIn = ClerkIds
    /\ stripe = NoSessions
    /\ subscriptions = <<>>
    /\ finalized = NoneFinalized
    /\ view = NoView
    /\ cookies = {}
    /\ customers = <<>>
    /\ config \in [COOKIE_DOMAIN : ConfiguredDomains]

NextCookie ==
    \/ Tick
    \/ \E uid \in UserIds, host \in Hosts : sessionLogin(uid, host)
    \/ \E cookie \in Presented, host \in Hosts : sessionLogout(cookie, host)

SpecCookie == InitCookie /\ [][NextCookie]_vars

-----------------------------------------------------------------------------
(* Specification of logout: a user logs in and out as the clock             *)
(* advances, and presents any token to a session-gated route                *)

LogoutHosts == {<<"localhost">>}

NextLogout ==
    \/ Tick
    \/ \E uid \in SessionUsers, host \in LogoutHosts : sessionLogin(uid, host)
    \/ \E cookie \in Presented, host \in LogoutHosts : sessionLogout(cookie, host)
    \/ \E cookie \in Presented : listMyChallenges(cookie)

SpecLogout == InitRes /\ [][NextLogout]_vars

-----------------------------------------------------------------------------
(* Properties of the owned-resource lifecycle                               *)

(* C1: an owner-scoped get, update or delete of a name-card, portfolio or   *)
(* challenge by an authenticated caller who is not its owner answers 404    *)
(* (so never 403) and leaves every row, child collections included,         *)
(* unchanged.                                                               *)
C1_NonOwnerGetsNotFound ==
    [][(resp'.foreign /\ resp'.op \in {"get", "update", "delete"})
          => (resp'.code = 404 /\ res' = res)]_vars

\* a non-owner's update of an existing row that has children has been answered 404
C1_Witness ==
    /\ resp.op = "update" /\ resp.foreign /\ resp.code = 404
    /\ Live(resp.id) /\ res[resp.id].kids # [c \in DOMAIN res[resp.id].kids |-> <<>>]

(* C4: in every state, every name-card, portfolio and challenge has         *)
(* publishedAt set if and only if its publish status is PUBLISHED.          *)
C4_PublishedAtIffPublished ==
    \A id \in ResIds :
        Live(id) => ((res[id].publishedAt # NoDate) <=> (res[id].publishStatus = "PUBLISHED"))

\* the step is an update of the live row id, answered 200, whose body carried ps
UpdatedWith(id, ps) ==
    /\ Live(id)
    /\ resp'.op = "update" /\ resp'.id = id /\ resp'.code = 200
    /\ resp'.publishStatus = ps

(* C5: an update that sets PUBLISHED on a resource that is already          *)
(* published, and an update that carries no publish status, leave           *)
(* publishedAt unchanged; an update to DRAFT clears it; an update to        *)
(* PUBLISHED of a resource with no publishedAt stamps the current time,     *)
(* and since stored stamps are never ahead of the clock and the clock never *)
(* goes back, the new stamp is not earlier than any the resource had.       *)
C5_PublishedAtFrame ==
    [][/\ now' >= now
       /\ \A id \in ResIds :
            /\ Live(id) => res[id].publishedAt <= now
            /\ (UpdatedWith(id, "PUBLISHED") /\ res[id].publishStatus = "PUBLISHED")
                  => res'[id].publishedAt = res[id].publishedAt
            /\ UpdatedWith(id, ABSENT)
                  => res'[id].publishedAt = res[id].publishedAt
            /\ UpdatedWith(id, "DRAFT")
                  => res'[id].publishedAt = NoDate
            /\ (UpdatedWith(id, "PUBLISHED") /\ res[id].publishedAt = NoDate)
                  => (res'[id].publishedAt = now /\ res'[id].publishedAt # NoDate)]_vars

\* a resource published earlier has been updated to PUBLISHED again and keeps its
\* older stamp
C5_Witness ==
    /\ resp.op = "update" /\ resp.code = 200 /\ resp.publishStatus = "PUBLISHED"
    /\ Live(resp.id) /\ res[resp.id].publishStatus = "PUBLISHED"
    /\ res[resp.id].publishedAt # NoDate /\ res[resp.id].publishedAt < now

-----------------------------------------------------------------------------
(* Properties of the submissions                                            *)

\* the step answers a submit of user uid to the challenge id, handled as request p
SubmitAnswered(p, uid, id) ==
    \/ SubmitBegin(p, uid, id) /\ resp'.step = "begin" /\ reqs' = reqs
    \/ /\ reqs[p].at \in {"find", "tx"} /\ reqs[p].uid = uid /\ reqs[p].id = id
       /\ (SubmitFind(p) \/ SubmitCommit(p))
       /\ reqs'[p] = Idle

(* C2 as stated: in every reachable state a challenge holds at most one     *)
(* submission per submitter, and a submit by a user who already has a       *)
(* submission for that challenge answers 409 and creates no second row.     *)
C2_DuplicateAlwaysConflict ==
    [][/\ UniqueSubmitter(subs')
       /\ \A p \in Procs, uid \in UserIds, id \in ResIds :
            (SubmitAnswered(p, uid, id) /\ HasSubmission(id, uid))
                => (resp'.code = 409 /\ subs' = subs)]_vars

(* C2, amended: in every reachable state a challenge holds at most one      *)
(* submission per submitter; a submit by a user who already has a           *)
(* submission for that challenge creates no second row, and it answers 409  *)
(* when the challenge is published and open as the request reads it, and    *)
(* 404 at that read when the challenge is not.                              *)
C2_OneSubmissionPerSubmitter ==
    [][/\ UniqueSubmitter(subs')
       /\ \A p \in Procs, uid \in UserIds, id \in ResIds :
            (SubmitAnswered(p, uid, id) /\ HasSubmission(id, uid))
                => /\ subs' = subs
                   /\ resp'.step = "begin" => (~ChallengeOpen(id) /\ resp'.code = 404)
                   /\ resp'.step # "begin" => resp'.code = 409]_vars

\* a submit that had found no submission of its caller met one in its transaction
C2_Witness ==
    /\ resp.op = "submit" /\ resp.step = "tx" /\ resp.code = 409
    /\ \E i \in 1..Len(subs) : subs[i].challengeId = resp.id

\* the orders issued for the challenge id, oldest first
IssuedFor(id) ==
    LET F[n \in 0..Len(issued)] ==
            IF n = 0 THEN <<>>
            ELSE IF issued[n].challengeId = id THEN Append(F[n - 1], issued[n].order)
            ELSE F[n - 1]
    IN  F[Len(issued)]

(* C3: for every challenge, the submissionOrder values of the submissions   *)
(* ever created for it, in the order of their creation, are strictly        *)
(* increasing, so none is given twice, withdrawals included, and the rows   *)
(* a challenge holds carry orders issued for it, no two the same.           *)
C3_OrdersStrictlyIncrease ==
    \A id \in ResIds :
        /\ \A i, j \in 1..Len(IssuedFor(id)) :
                i < j => IssuedFor(id)[i] < IssuedFor(id)[j]
        /\ \A i \in 1..Len(subs) :
                subs[i].challengeId = id =>
                    /\ \E k \in 1..Len(IssuedFor(id)) : IssuedFor(id)[k] = subs[i].submissionOrder
                    /\ \A j \in 1..Len(subs) :
                          (subs[j].challengeId = id
                             /\ subs[j].submissionOrder = subs[i].submissionOrder) => i = j

\* a submission was created after an earlier one of the challenge was withdrawn
C3_Witness ==
    \E id \in ResIds :
        /\ Len(IssuedFor(id)) >= 3
        /\ \E i, j \in 1..Len(IssuedFor(id)) :
              /\ i < j
              /\ \A k \in 1..Len(subs) : subs[k].submissionOrder # IssuedFor(id)[i]
              /\ \E k \in 1..Len(subs) : subs[k].submissionOrder = IssuedFor(id)[j]

-----------------------------------------------------------------------------
(* Properties of the identity bridge                                        *)

(* C6: the reconciliation run at login never writes username: a first       *)
(* login creates the row with username unset, and a later login leaves the  *)
(* username of every row as it was.                                         *)
C6_LoginNeverWritesUsername ==
    [][\A p \in Procs, claims \in LoginClaims :
          LoginWrite(p, claims) =>
              \A u \in UserIds :
                  users'[u] # NoUser =>
                      users'[u].username =
                          IF users[u] = NoUser THEN NULL ELSE users[u].username]_vars

(* C7: a login that begins once the profile path has set the user's         *)
(* username leaves that username unchanged, whatever the provider claims.   *)
C7_LoginKeepsProfileUsername ==
    [][\A p \in Procs, claims \in LoginClaims :
          (LoginWrite(p, claims) /\ reqs[p].afterProfile)
              => /\ users'[reqs[p].uid].username = users[reqs[p].uid].username
                 /\ ~Falsy(users'[reqs[p].uid].username)]_vars

\* a login has succeeded for a user whose username the profile path had set
C7_Witness ==
    /\ resp.op = "login" /\ resp.code = 200
    /\ resp.id \in profiled
    /\ users[resp.id].username = "ann"

\* the rows of the external id
RowsOfClerk(clerkId) == {u \in UserIds : users[u] # NoUser /\ users[u].clerkId = clerkId}

(* C8: in every state there is at most one user row for each external id,   *)
(* and exactly one for each external id a login has succeeded for.          *)
C8_OneRowPerExternalId ==
    \A c \in ClerkIds :
        /\ Cardinality(RowsOfClerk(c)) <= 1
        /\ c \in loggedIn => Cardinality(RowsOfClerk(c)) = 1

\* of two first logins racing for one external id, the second to create was refused
C8_Witness ==
    /\ resp.op = "login" /\ resp.code = 401
    /\ loggedIn # {}
    /\ \A p \in Procs : reqs[p] = Idle

-----------------------------------------------------------------------------
(* Properties of the billing reconciliation                                 *)

\* the billing provider has not moved the subscription of the session on since the
\* checkout (StripeChange has not acted on it): every call retrieved the same object
NeverChanged(sessionId) ==
    stripe[sessionId].subscription.current_period_end = 1

\* request p is a repeat: a finalize of its session has completed before, and the
\* external subscription has not changed
RepeatCall(p) ==
    /\ finalized[reqs[p].sessionId].calls >= 1
    /\ NeverChanged(reqs[p].sessionId)

\* the Subscription rows of the subscription of request p
RowsOfCall(p) ==
    {subscriptions[i] : i \in RowsOfSub(reqs[p].session.subscription.id)}

(* C10: there is never more than one Subscription row for an external       *)
(* subscription id, and exactly one when a finalize completes; while the    *)
(* external subscription has not changed, a finalize of a session that an   *)
(* earlier finalize has completed for resolves the same user, leaves the    *)
(* Subscription table as it is with the row that the earlier call left,     *)
(* leaves the user's subscription status and period end as the earlier      *)
(* call left them, and leaves the user row as it is when its plan, status   *)
(* and period end are still what the earlier call left.                     *)
C10_FinalizeIdempotent ==
    [][/\ \A i, j \in 1..Len(subscriptions') :
            subscriptions'[i].stripeSubId = subscriptions'[j].stripeSubId => i = j
       /\ \A p \in Procs :
            /\ (FinalizeUpsert(p) /\ RepeatCall(p))
                  => /\ subscriptions' = subscriptions
                     /\ RowsOfCall(p) = finalized[reqs[p].sessionId].rows
            /\ FinalizeUser(p)
                  => Cardinality(RowsOfSub(reqs[p].session.subscription.id)) = 1
            /\ (FinalizeUser(p) /\ RepeatCall(p))
                  => LET was == finalized[reqs[p].sessionId]
                         uid == reqs[p].appUserId
                     IN  /\ uid = was.userId
                         /\ RowsOfCall(p) = was.rows
                         /\ users'[uid].subscriptionStatus = was.billing.subscriptionStatus
                         /\ users'[uid].currentPeriodEnd = was.billing.currentPeriodEnd
                         /\ BillingOf(users[uid]) = was.billing => users' = users]_vars

\* a second finalize of the session has completed, the external subscription as it
\* was at the first, and left one row
C10_Witness ==
    /\ resp.op = "finalize" /\ resp.code = 200 /\ resp.step = "user" /\ resp.id = "cs1"
    /\ finalized["cs1"].calls = 2
    /\ stripe["cs1"].subscription.current_period_end = 1
    /\ Cardinality(RowsOfSub("sub1")) = 1
    /\ BillingOf(users[finalized["cs1"].userId]) = finalized["cs1"].billing

-----------------------------------------------------------------------------
(* Properties of slugs under concurrency                                    *)

(* C11: in every reachable state, whatever the interleaving of creates and  *)
(* slug updates by any users, no two rows of one resource type hold the     *)
(* same slug, whoever owns them.                                            *)
C11_SlugUniquePerType ==
    \A a, b \in ResIds :
        (Live(a) /\ Live(b) /\ res[a].kind = res[b].kind /\ res[a].slug = res[b].slug)
            => a = b

\* two rows of one type, of different owners, stand side by side after a write that
\* would have given the second the slug of the first was refused
C11_Witness ==
    /\ \E a, b \in ResIds :
          /\ a # b /\ Live(a) /\ Live(b)
          /\ res[a].kind = res[b].kind /\ res[a].userId # res[b].userId
    /\ resp.step = "collision"

(* C12: a create or slug-changing update that passed the slug probe and     *)
(* then fails on the unique index at its write answers 409.                 *)
C12_WriteCollisionIsConflict ==
    resp.step = "collision" => resp.code = 409

-----------------------------------------------------------------------------
(* Properties of the views                                                  *)

\* the values a sensitive field can take
OtherValues(f) ==
    IF f = "dateOfBirth" THEN {NoDay, Birthday, <<1999, 12, 31, 12>>} ELSE {NULL, "x", "y"}

(* C13: for every sensitive field with a show flag, of every name-card and  *)
(* every profile, the public view holds the stored value (a date of birth   *)
(* as its calendar day) when the flag is true and null when it is false,    *)
(* and does not change when a hidden value changes; the owner view holds    *)
(* the stored value whatever the flag; both views hold the flags; and the   *)
(* body of a fetch is the view of the stored row for that caller.           *)
C13_ViewsRespectFlags ==
    /\ \A id \in RowsOf("card"), f \in CardSensitive :
          LET card == res[id]
              pub == serializeCard(card, FALSE)
              own == serializeCard(card, TRUE)
          IN  /\ pub[f] = IF card[ShowFlag(f)] THEN Raw(card, f) ELSE NullOf(f)
              /\ own[f] = Raw(card, f)
              /\ pub[ShowFlag(f)] = card[ShowFlag(f)] /\ own[ShowFlag(f)] = card[ShowFlag(f)]
              /\ ~card[ShowFlag(f)] =>
                    \A v \in OtherValues(f) : serializeCard([card EXCEPT ![f] = v], FALSE) = pub
    /\ \A id \in UserIds, f \in ProfileSensitive :
          LET u == users[id]
              pub == serializeProfile(id, u, FALSE)
              own == serializeProfile(id, u, TRUE)
          IN  /\ pub[f] = IF u[ShowFlag(f)] THEN Raw(u, f) ELSE NullOf(f)
              /\ own[f] = Raw(u, f)
              /\ pub[ShowFlag(f)] = u[ShowFlag(f)] /\ own[ShowFlag(f)] = u[ShowFlag(f)]
              /\ ~u[ShowFlag(f)] =>
                    \A v \in OtherValues(f) :
                        serializeProfile(id, [u EXCEPT ![f] = v], FALSE) = pub
    /\ view.of = "publicCard" => view.out = serializeCard(res[view.id], view.isOwner)
    /\ view.of \in {"profile", "publicProfile", "publicProfileByUsername"} =>
          view.out = serializeProfile(view.id, users[view.id], view.isOwner)

\* a public fetch by another caller returned a name-card with a hidden value in the row
\* and a shown one
C13_Witness ==
    /\ view.of = "publicCard" /\ ~view.isOwner
    /\ res[view.id].phone = "x" /\ ~res[view.id].showPhone /\ view.out.phone = NULL
    /\ res[view.id].country = "x" /\ res[view.id].showCountry /\ view.out.country = "x"

-----------------------------------------------------------------------------
(* Properties of the public fetch by slug                                   *)

\* the published row of a type with a slug, if there is one
PublishedWith(kind, slug) ==
    {id \in RowsOf(kind) : res[id].slug = slug /\ res[id].publishStatus = "PUBLISHED"}

\* the answer of a public fetch of a type by a slug: the row when it is published, 404
\* and no body otherwise
PublicAnswer(kind, slug) ==
    /\ res' = res
    /\ IF PublishedWith(kind, slug) # {}
       THEN /\ resp'.code = 200 /\ resp'.id \in PublishedWith(kind, slug)
            /\ view'.id = resp'.id
       ELSE resp'.code = 404 /\ view' = NoView

(* C14: in every reachable state, a public fetch by slug of a name-card,    *)
(* portfolio or challenge, by any caller, the owner included, returns the   *)
(* resource when a row with that slug is PUBLISHED at that moment and       *)
(* answers 404 otherwise: for a row that is DRAFT or PRIVATE, was           *)
(* unpublished, was deleted or never existed.                               *)
C14_PublicOnlyWhilePublished ==
    [][\A caller \in Callers :
          /\ getPublicCardBySlug(caller, PublicSlug) => PublicAnswer("card", PublicSlug)
          /\ getPublicChallengeBySlug(caller, PublicSlug)
                => PublicAnswer("challenge", PublicSlug)
          /\ getPublicPortfolioBySlug(caller, PublicSlug)
                => PublicAnswer("portfolio", PublicSlug)]_vars

\* a fetch of a name-card that was published and then unpublished has just answered 404
C14_Witness ==
    /\ resp.op = "publicCard" /\ resp.code = 404
    /\ \E id \in RowsOf("card") :
          /\ res[id].slug = PublicSlug /\ res[id].publishStatus = "PRIVATE"
          /\ res[id].publishedAt # NoDate

\* a token signed with the server's key and issued less than TokenLife ago
ValidToken(cookie) ==
    cookie.kind = "jwt" /\ cookie.key = ServerKey /\ now - cookie.iat < TokenLife

\* C15: an admin-gated request is answered 401 when it carries no valid session, 403
\* when it carries one and the role of its user in the store is not ADMIN at that
\* time, whatever the role was when the token was signed, and passes only when the
\* role in the store is ADMIN
C15_AdminRechecksStoredRole ==
    [][\A cookie \in Presented : adminRoute(cookie) =>
        /\ ~ValidToken(cookie) => resp'.code = 401
        /\ ValidToken(cookie) /\ users[cookie.uid].role # "ADMIN" => resp'.code = 403
        /\ ValidToken(cookie) /\ users[cookie.uid].role = "ADMIN" => resp'.code = 200
        /\ resp'.code = 200 => ValidToken(cookie) /\ users[cookie.uid].role = "ADMIN"]_vars

\* a user whose every token was signed while the user was ADMIN, and who is no longer
\* ADMIN, was answered 403 on an admin route with a token that has not expired
C15_Witness ==
    /\ resp.op = "admin" /\ resp.code = 403 /\ resp.step = "token"
    /\ resp.id \in UserIds
    /\ users[resp.id].role # "ADMIN"
    /\ \E c \in cookies : c.token.uid = resp.id /\ ValidToken(c.token)
    /\ \A c \in cookies : c.token.uid = resp.id => c.roleAtIssue = "ADMIN"

\* C16: a request has an identity, that of the token, exactly when its cookie carries
\* a token signed with the server's key less than TokenLife ago; with any other
\* cookie the session-gated routes answer 401, and none answers an error
C16_IdentityIffValidToken ==
    [][\A cookie \in Presented :
        /\ attachUserFromSession(cookie) # Anon <=> ValidToken(cookie)
        /\ ValidToken(cookie) => attachUserFromSession(cookie) = cookie.uid
        /\ (\/ adminRoute(cookie)
            \/ listMyChallenges(cookie)
            \/ deleteCardRoute(cookie, "r1")
            \/ sessionMe(cookie))
           => /\ resp'.code # 500
              /\ ~ValidToken(cookie) => resp'.code = 401]_vars

\* a session-gated route answered 401 to a token of the server that had expired
C16_Witness ==
    /\ resp.op = "myChallenges" /\ resp.code = 401 /\ resp.step = "expired"
    /\ resp.id = "-"
    /\ \E c \in cookies : now >= c.token.iat + TokenLife

\* C20: GET /session/me answers 401 without a valid session and, with one, answers
\* 200 with the id, email, display name and billing summary of the token's user
C20_SessionMeAnswersOwnUser ==
    [][\A cookie \in Presented : sessionMe(cookie) =>
        IF ValidToken(cookie)
        THEN resp'.code = 200 /\ view'.out = MeBody(cookie.uid)
        ELSE resp'.code = 401]_vars

\* the owner of the challenge a submission belongs to
OwnerOfSubmission(sid) ==
    res[subs[CHOOSE i \in RowsOfSid(sid) : TRUE].challengeId].userId

\* C17: a setStatus request changes the status of a submission only when its caller
\* owns the challenge that submission belongs to, whatever ids the request names
C17_OnlyChallengeOwnerSetsStatus ==
    [][\A caller \in Callers, challengeId \in ResIds, submissionId \in SubmissionIds,
          status \in StatusInputs :
            (updateSubmissionStatus(caller, challengeId, submissionId, status)
                /\ subs' # subs)
            => caller = OwnerOfSubmission(submissionId)]_vars

\* C18: no submission is held by the owner of its challenge
C18_SubmitterIsNotOwner ==
    \A i \in 1..Len(subs) :
        res[subs[i].challengeId].kind = "challenge"
            => subs[i].submitterId # res[subs[i].challengeId].userId

\* the challenge exists, is PUBLISHED and is OPEN
SubmitTarget(id) ==
    /\ id \in ResIds /\ res[id].kind = "challenge"
    /\ res[id].publishStatus \notin {"DRAFT", "PRIVATE"}
    /\ res[id].status \notin {"CLOSED"}

KidsAfter(kids) ==
    [c \in DOMAIN res["r1"].kids |-> IF c \in DOMAIN kids THEN kids[c] ELSE res["r1"].kids[c]]

\* C21: after a successful update every child collection named in the patch holds
\* exactly the items of the patch, an empty list emptying it, and every collection
\* not named is unchanged
C21_ChildrenReplaced ==
    [][/\ \A caller \in UserIds, input \in KidCardPatches :
            (updateCard(caller, "r1", input) /\ resp'.code = 200)
                => res'["r1"].kids = KidsAfter(input.kids)
       /\ \A caller \in UserIds, body \in KidChallengePatches :
            (updateChallenge(caller, "r1", body) /\ resp'.code = 200)
                => res'["r1"].kids = KidsAfter(body.kids)
       /\ \A caller \in UserIds, body \in KidPortfolioPatches :
            (updatePortfolio(caller, "r1", body) /\ resp'.code = 200)
                => res'["r1"].kids = KidsAfter(body.kids)]_vars

\* an update emptied one collection of a portfolio and left the other, which holds
\* two items, alone
C21_Witness ==
    /\ resp.op = "update" /\ resp.code = 200 /\ resp.id = "r1"
    /\ res["r1"].kind = "portfolio"
    /\ res["r1"].kids.subImages = <<>>
    /\ res["r1"].kids.projects = <<"y", "x">>

\* C22: an update or delete of a base row and its child collections is all or
\* nothing: while it is in flight the store shows the row as it was before the
\* request, a read made meanwhile returns that row, a request that failed has left
\* the row as it was, and one that succeeded has left the whole patch or no row
C22_AllOrNothing ==
    /\ \A p \in Procs :
        reqs[p].at \in TxSteps =>
            /\ res[reqs[p].id] = reqs[p].before
            /\ (resp.op = "read" /\ resp.code = 200) => view.row = reqs[p].before
    /\ (resp.op = "txupdate" /\ view.of = "tx") =>
            res[resp.id] = IF resp.code = 200
                           THEN Patched(view.kind, view.before, view.body)
                           ELSE view.before
    /\ (resp.op = "txdelete" /\ view.of = "tx") =>
            res[resp.id] = IF resp.code = 200 THEN NoRow ELSE view.before

\* an update of a challenge failed after it had written the base fields and emptied
\* the collections, and the row still holds its old fields and its children
C22_Witness ==
    /\ resp.op = "txupdate" /\ resp.code = 500 /\ view.of = "tx"
    /\ view.kind = "challenge"
    /\ view.body.status = "CLOSED" /\ DOMAIN view.body.kids # {}
    /\ res["r1"].kind = "challenge" /\ res["r1"].status = "OPEN"
    /\ res["r1"].kids.prizes # <<>>

\* the description of r1 after a patch: kept when the patch has none, null when the
\* patch gives null, the given value otherwise
ScalarAfter(body) ==
    IF body.description = ABSENT THEN res["r1"].description ELSE body.description

\* C23: a successful update of a name-card, portfolio or challenge clears a nullable
\* scalar given as null and keeps one that is absent from the patch
C23_NullClearsAbsentKeeps ==
    [][/\ \A caller \in UserIds, input \in ScalarCardPatches :
            (updateCard(caller, "r1", input) /\ resp'.code = 200)
                => res'["r1"].description = ScalarAfter(input)
       /\ \A caller \in UserIds, body \in ScalarChallengePatches :
            (updateChallenge(caller, "r1", body) /\ resp'.code = 200)
                => res'["r1"].description = ScalarAfter(body)
       /\ \A caller \in UserIds, body \in ScalarPortfolioPatches :
            (updatePortfolio(caller, "r1", body) /\ resp'.code = 200)
                => res'["r1"].description = ScalarAfter(body)]_vars

\* the fixed base of a type
FixedBase(kind) ==
    IF kind = "challenge" THEN <<"c", "h", "a", "l", "l", "e", "n", "g", "e">>
    ELSE <<"p", "o", "r", "t", "f", "o", "l", "i", "o">>

\* the slug the allocator is to return: the normalized title, or the fixed base when
\* that is empty, and with -N for the smallest free N when it is taken
Allocated(kind, title) ==
    LET base == IF slugify(title) = <<>> THEN FixedBase(kind) ELSE slugify(title)
        withN(n) == base \o <<"-">> \o Digits(n)
    IN  IF ~SlugTaken(kind, base) THEN base
        ELSE withN(CHOOSE n \in 1..ProbeLimit :
                    /\ ~SlugTaken(kind, withN(n))
                    /\ \A m \in 1..(n - 1) : SlugTaken(kind, withN(m)))

\* C24: a create without a slug is given the normalized title when it is free and
\* otherwise that with -N for the smallest free N >= 1, the fixed base of the type
\* standing for an empty normalized title in both cases
C24_AllocatorUsesFixedBase ==
    [][/\ \A caller \in UserIds, payload \in AllocChallengeCreates :
            (createChallenge(ResIds, caller, payload) /\ resp'.code = 200)
                => res'[resp'.id].slug = Allocated("challenge", payload.title)
       /\ \A caller \in UserIds, data \in AllocPortfolioCreates :
            (createPortfolio(ResIds, caller, data) /\ resp'.code = 200)
                => res'[resp'.id].slug = Allocated("portfolio", data.title)]_vars

\* the remote customers created for a user
CustomersOf(uid) == {i \in 1..Len(customers) : customers[i].appUserId = uid}

\* C25: a call for a user with no linked customer creates one remote customer and
\* answers only with the user's row holding its id; the link, once written, is never
\* cleared; and a call that starts when the row holds an id answers with that id at
\* once and creates no customer
C25_CustomerLinkedBeforeReturn ==
    [][/\ \A p \in Procs :
            CustomerCreate(p) =>
                /\ Len(customers') = Len(customers) + 1
                /\ customers'[Len(customers')].appUserId = reqs[p].uid
       /\ \A p \in Procs :
            CustomerStore(p) =>
                /\ resp'.code = 200
                /\ users'[reqs[p].uid].stripeCustomerId = resp'.id
                /\ \E i \in CustomersOf(reqs[p].uid) : customers[i].id = resp'.id
       /\ \A u \in UserIds :
            ~Falsy(users[u].stripeCustomerId) => ~Falsy(users'[u].stripeCustomerId)
       /\ \A p \in Procs, caller \in UserIds, plan \in Plans :
            (CheckoutBegin(p, caller, plan) /\ ~Falsy(users[caller].stripeCustomerId))
            => /\ resp'.code = 200 /\ resp'.id = users[caller].stripeCustomerId
               /\ reqs'[p] = Idle /\ customers' = customers /\ users' = users]_vars

\* a call made after the first had returned was answered with the stored id, and the
\* provider holds the one customer of that user
C25_Witness ==
    /\ resp.op = "checkout" /\ resp.step = "stored" /\ resp.code = 200
    /\ \A p \in Procs : reqs[p] = Idle
    /\ Len(customers) = 1 /\ customers[1].id = resp.id
    /\ customers[1].appUserId = view.uid
    /\ users[view.uid].stripeCustomerId = resp.id

\* the configured domain is the host or the host ends with a dot and the domain
DomainMatches(host, domain) ==
    /\ domain # NoDomain
    /\ \/ host = domain
       \/ /\ Len(host) > Len(domain)
          /\ SubSeq(host, Len(host) - Len(domain) + 1, Len(host)) = domain

\* C26: the session cookie set at login and cleared at logout carries a domain only
\* when the configured domain is the request's host or a dot-suffix of it, and is
\* host-only for every other host
C26_DomainOnlyForMatchingHost ==
    view.of \in {"set-cookie", "clear-cookie"} =>
        view.domain = IF DomainMatches(view.host, config.COOKIE_DOMAIN)
                      THEN config.COOKIE_DOMAIN ELSE NoDomain

\* C27: the public list of a challenge's submissions shows a submitter's phone to
\* another caller only when that submitter's showPhone is true
C27_HiddenPhoneNotListed ==
    view.of = "submissions" =>
        \A i \in 1..Len(view.out) :
            (view.out[i].submitterId # view.caller /\ view.out[i].submitterPhone # NULL)
                => users[view.out[i].submitterId].showPhone

\* C28: the owner of a name-card, a portfolio or a challenge is the session user who
\* created it and never changes, whatever owner the bodies of the create and update
\* requests name
C28_OwnerIsCreatingSession ==
    \A id \in ResIds : Live(id) => res[id].userId = Creator
\* a row was patched by a request whose body names another owner
C28_Witness ==
    /\ resp.op = "update" /\ resp.code = 200
    /\ Live(resp.id) /\ res[resp.id].userId = Creator /\ res[resp.id].description = "e"

\* C29: no sequence of login, profile-update, resource, submission and billing
\* requests changes the role of any user
C29_RoleNeverChanges ==
    \A u \in UserIds : users[u] # NoUser => users[u].role = InitialRole(u)
\* the administrator has logged in again after a profile update and a finalized
\* checkout, with a submission stored
C29_Witness ==
    /\ resp.op = "login" /\ resp.code = 200 /\ resp.id = "u1"
    /\ users["u1"].role = "ADMIN" /\ users["u1"].username = "ann"
    /\ users["u1"].subscriptionStatus = "active"
    /\ subs # <<>>

\* a logout has been requested with the token
LoggedOut(cookie) == \E c \in cookies : c.token = cookie /\ c.loggedOut

\* C30: a logout answers 200 and changes nothing the server stores, and a token a
\* logout was requested with is accepted as before until TokenLife after its issue
C30_LogoutKeepsTokenValid ==
    [][/\ \A cookie \in Presented, host \in LogoutHosts :
            sessionLogout(cookie, host) =>
                /\ resp'.code = 200
                /\ UNCHANGED <<users, res, now, subs, issued, stripe, subscriptions,
                               finalized, customers, config>>
       /\ \A cookie \in Presented :
            (listMyChallenges(cookie) /\ LoggedOut(cookie)) =>
                IF ValidToken(cookie)
                THEN resp'.code = 200 /\ resp'.id = cookie.uid
                ELSE resp'.code = 401]_vars
\* a session-gated route answered 200 to a token after the logout requested with it
C30_Witness ==
    /\ resp.op = "myChallenges" /\ resp.code = 200
    /\ \E c \in cookies : c.loggedOut /\ c.token.uid = resp.id /\ ValidToken(c.token)

====
